---- MODULE Spec2Model ----
(***************************************************************************)
(* A model of the analysis and scoring engine of Code-Analyser:            *)
(*   core/severity.py            issue scores and the overall score        *)
(*   core/analyzers/*.py         the Python and JS analyzers               *)
(*   core/analyzers/manager.py   analyze_repo, the aggregation             *)
(*                                                                         *)
(* Conventions.  A Python dict with optional keys is a record whose absent *)
(* keys hold None.  A Python list is a sequence.  hashlib.sha256 is        *)
(* modelled as an injective function: the digest of a text is the text     *)
(* itself, so two digests are equal exactly when the hashed texts are.     *)
(* Floating point in compute_overall_score is modelled by exact rational   *)
(* arithmetic on integer numerators and denominators.                      *)
(***************************************************************************)
EXTENDS Integers, Sequences, FiniteSets, TLC

VARIABLES
    \* ---- analyze_repo (Spec)
    repo,           \* the repository under the root path, as the analyzers read it
    languages,      \* the languages argument
    pc,             \* "loop": in the per-language loop; "done": analyze_repo returned;
                    \* "raised <error>": analyze_repo raised that error
    lang_idx,       \* the position of the per-language loop in languages
    issues,         \* the local list issues; at "done", results["issues"]
    files,          \* the local dict files; at "done", results["files"]
    languages_used, \* the local list languages_used
    aggregated,     \* the list issues as it entered the deduplication (line 93)
    overall_score,  \* results["overall_score"]
    \* ---- severity.py driven directly (SpecScore)
    sc_issues,      \* the issue list handed to the scorer
    sc_hotness,     \* file_hotness_map handed to enrich_issues_with_scores
    sc_size,        \* repo_size
    sc_trend,       \* trend_factor, a rational <<numerator, denominator>>
    sc_overall,     \* the last result of compute_overall_score
    sc_prev,        \* the result before the last change of the issue list
    sc_last,        \* the last operation applied
    \* ---- the duplication hashes of two functions (SpecNorm)
    nm_lang,        \* "py" or "js": the analyzer that hashes
    nm_f,           \* the first function: its name and the text of its body
    nm_g,           \* the second function
    nm_hash_f,      \* the duplication hash of the first function
    nm_hash_g,      \* the duplication hash of the second function
    nm_pc,          \* "input": not hashed yet; "hashed"
    \* ---- the complexity estimate of one Python function (SpecCplx)
    cx_counts,      \* how often each keyword, and an identifier holding one, occurs
    cx_cc,          \* cc_val of the function
    cx_issues,      \* the complexity issues emitted for the function
    cx_pc,          \* "input": not estimated yet; "estimated"
    \* ---- the security warnings of one JS file (SpecJsSec)
    js_source,        \* the suspicious constructs of the file, in source order
    js_tree_sitter,   \* tree_sitter_available
    js_warnings,      \* susp_warnings
    js_sec_issues,    \* the security issues appended for the file
    js_pc,            \* "input": not analysed yet; "emitted"
    \* ---- the symbol table and the call graph of Python files (SpecXref)
    xr_files,         \* the .py files under the root, in rglob order
    xr_symbol_table,  \* the result of build_python_symbol_table
    xr_call_graph,    \* the call_graph of resolve_crossrefs
    xr_edges,         \* the "edges" of build_dep_graph
    xr_nodes,         \* the "nodes" of build_dep_graph
    xr_hotspots,      \* the "hotspots" of build_dep_graph
    xr_pc,            \* "input", "built", "resolved", "graphed"
    \* ---- _extract_functions_regex of js_analyzer.py (SpecJsFn)
    fx_source,        \* the text of the JS file, a sequence of characters
    fx_matches,       \* the matches of the function pattern, in finditer order
    fx_m,             \* the index of the match whose body is being extracted
    fx_i,             \* the position of the brace scan (1-based)
    fx_brace,         \* the nesting depth of the brace scan
    fx_functions,     \* the functions list
    fx_pc,            \* "input", "match", "scan", "done"
    \* ---- the job manager and the file-based report storage (SpecJob)
    jb_jobs,          \* JobManager.jobs: job id -> job dict
    jb_pc,            \* job id -> where the thread that runs the job is
    jb_local,         \* job id -> the locals of save_report and its helpers
    jb_observed,      \* what the last get_job call of an observer saw
    st_index,         \* data/index.json: last_id and map
    st_files,         \* the report files of data/: name -> content
    \* ---- standardize_issue of reporter.py (SpecStd)
    sd_raw,           \* the raw issue
    sd_out,           \* the standardized issue
    sd_pc,            \* "input", "done"
    \* ---- chunk_text of utils.py (SpecChunk)
    ck_len,           \* len(text)
    ck_max,           \* max_chars
    ck_start,         \* start
    ck_chunks,        \* chunks, each as <<first, last>>, 0-based and end-exclusive
    ck_pc             \* "loop", "body", "done"

scoreVars == <<sc_issues, sc_hotness, sc_size, sc_trend, sc_overall, sc_prev, sc_last>>

repoVars == <<repo, languages, pc, lang_idx, issues, files, languages_used, aggregated,
              overall_score>>

normVars == <<nm_lang, nm_f, nm_g, nm_hash_f, nm_hash_g, nm_pc>>

cplxVars == <<cx_counts, cx_cc, cx_issues, cx_pc>>

\* the variables of the specifications that follow the first three
jsSecVars == <<js_source, js_tree_sitter, js_warnings, js_sec_issues, js_pc>>

xrefVars == <<xr_files, xr_symbol_table, xr_call_graph, xr_edges, xr_nodes, xr_hotspots, xr_pc>>

jsFnVars == <<fx_source, fx_matches, fx_m, fx_i, fx_brace, fx_functions, fx_pc>>

jobVars == <<jb_jobs, jb_pc, jb_local, jb_observed, st_index, st_files>>

stdVars == <<sd_raw, sd_out, sd_pc>>

chunkVars == <<ck_len, ck_max, ck_start, ck_chunks, ck_pc>>

extVars == <<cplxVars, jsSecVars, xrefVars, jsFnVars, jobVars, stdVars, chunkVars>>

vars == <<repoVars, scoreVars, normVars, extVars>>

\* None for a string-valued key
None == "None"

\* An optional integer key: <<>> when the key is absent, <<v>> when it holds v
NoInt == <<>>

Some(v) == <<v>>

Val(x) == x[1]

Min(a, b) == IF a <= b THEN a ELSE b

Max(a, b) == IF a >= b THEN a ELSE b

RECURSIVE SumSeq(_)
SumSeq(s) == IF s = <<>> THEN 0 ELSE Head(s) + SumSeq(Tail(s))

\* Python's int() of the rational n/d (d > 0): truncation toward zero.
IntTrunc(n, d) == IF n >= 0 THEN n \div d ELSE -((-n) \div d)

(***************************************************************************)
(* core/severity.py                                                        *)
(***************************************************************************)
Severities == {"critical", "high", "medium", "low"}

\* severity_to_base_score without the default: every severity scores 0 unless mapped
SeverityToBaseScoreNoDefault(severity) ==
    CASE severity = "critical" -> 95
      [] severity = "high"     -> 75
      [] severity = "medium"   -> 40
      [] severity = "low"      -> 10
      [] OTHER                 -> 0

\* severity_to_base_score with the bases of high and medium exchanged
SeverityToBaseScoreSwapped(severity) ==
    CASE severity = "critical" -> 95
      [] severity = "high"     -> 40
      [] severity = "medium"   -> 75
      [] severity = "low"      -> 10
      [] OTHER                 -> 40

\* mapping.get(severity.lower(), 40)
severity_to_base_score(severity) ==
    CASE severity = "critical" -> 95
      [] severity = "high"     -> 75
      [] severity = "medium"   -> 40
      [] severity = "low"      -> 10
      [] OTHER                 -> 40

\* compute_issue_score with the hotness factor left uncapped
ComputeIssueScoreUncapped(issue, file_hotness) ==
    LET base == severity_to_base_score(IF issue.severity = None THEN "medium" ELSE issue.severity)
        occurrences == IF issue.occurrences = NoInt THEN 1 ELSE Val(issue.occurrences)
        penalty == 10 * (occurrences - 1)
        score == base + file_hotness * 5 - penalty
    IN  Max(0, Min(100, score))

\* compute_issue_score(issue, file_hotness) with historical_weight at its
\* default 1.0, the only value the repository passes: int(score * 1.0) = score.
compute_issue_score(issue, file_hotness) ==
    LET base == severity_to_base_score(IF issue.severity = None THEN "medium" ELSE issue.severity)
        occurrences == IF issue.occurrences = NoInt THEN 1 ELSE Val(issue.occurrences)
        penalty == 10 * (occurrences - 1)
        hotness_factor == Min(3, file_hotness)
        score == base + hotness_factor * 5 - penalty
    IN  Max(0, Min(100, score))

\* compute_overall_score with the result left unclamped
ComputeOverallScoreUnclamped(issue_list, repo_size, trend) ==
    IF issue_list = <<>> \/ repo_size <= 0 THEN 100
    ELSE LET total == SumSeq([k \in 1..Len(issue_list) |->
                               IF issue_list[k].score = NoInt THEN 40 ELSE Val(issue_list[k].score)])
             num == 100 * 100 * Len(issue_list) * trend[2] - total * Min(repo_size, 50) * trend[1]
             den == 100 * Len(issue_list) * trend[2]
         IN  IntTrunc(num, den)

\* compute_overall_score(issues, repo_size, trend_factor):
\*   overall = 100 - (sum/len / 100) * min(repo_size, 50) * trend_factor
\*           = num / den  with the integers below; int() truncates; then the clamp.
compute_overall_score(issue_list, repo_size, trend) ==
    IF issue_list = <<>> \/ repo_size <= 0 THEN 100
    ELSE LET total == SumSeq([k \in 1..Len(issue_list) |->
                               IF issue_list[k].score = NoInt THEN 40 ELSE Val(issue_list[k].score)])
             num == 100 * 100 * Len(issue_list) * trend[2] - total * Min(repo_size, 50) * trend[1]
             den == 100 * Len(issue_list) * trend[2]
         IN  Max(0, Min(100, IntTrunc(num, den)))

\* file_hotness_map.get(file_name, 1) with file_name = issue.get("file", "")
HotnessOf(issue, file_hotness_map) ==
    IF issue.file # None /\ issue.file \in DOMAIN file_hotness_map
    THEN file_hotness_map[issue.file] ELSE 1

\* enrich_issues_with_scores: every issue gets its score, in place
enrich_issues_with_scores(issue_list, file_hotness_map) ==
    [k \in 1..Len(issue_list) |->
        [issue_list[k] EXCEPT !.score = Some(compute_issue_score(issue_list[k], HotnessOf(issue_list[k], file_hotness_map)))]]

(***************************************************************************)
(* Source text.  A text is a sequence of symbols: each symbol is one       *)
(* token of the source (an identifier, an operator, a keyword), one        *)
(* whitespace character (" " or "\n") or one comment delimiter ("#" for    *)
(* Python; "//", "/*" and "*/" for JS).                                    *)
(***************************************************************************)
Whitespace == {" ", "\n"}

RECURSIVE LStrip(_)
LStrip(t) == IF t # <<>> /\ Head(t) \in Whitespace THEN LStrip(Tail(t)) ELSE t

RECURSIVE RStrip(_)
RStrip(t) ==
    IF t # <<>> /\ t[Len(t)] \in Whitespace THEN RStrip(SubSeq(t, 1, Len(t) - 1)) ELSE t

\* str.strip()
Strip(t) == RStrip(LStrip(t))

\* the index of the first symbol of t that is in S, or Len(t) + 1
RECURSIVE FirstIn(_, _, _)
FirstIn(t, S, from) ==
    IF from > Len(t) THEN Len(t) + 1
    ELSE IF t[from] \in S THEN from ELSE FirstIn(t, S, from + 1)

\* str.splitlines(): the lines of t, without their line ends
RECURSIVE SplitLines(_)
SplitLines(t) ==
    IF t = <<>> THEN <<>>
    ELSE LET nl == FirstIn(t, {"\n"}, 1)
         IN  <<SubSeq(t, 1, nl - 1)>> \o SplitLines(SubSeq(t, nl + 1, Len(t)))

RECURSIVE Concat(_)
Concat(ss) == IF ss = <<>> THEN <<>> ELSE Head(ss) \o Concat(Tail(ss))

(***************************************************************************)
(* core/analyzers/python_analyzer.py, the duplication hash (175-176)       *)
(***************************************************************************)
\* "".join(line.strip() for line in func_source.splitlines()
\*         if not line.strip().startswith("#"))
PyNormalize(func_source) ==
    LET lines == SplitLines(func_source)
        kept(l) == l = <<>> \/ Head(l) # "#"
        stripped == [k \in 1..Len(lines) |-> Strip(lines[k])]
    IN  Concat(SelectSeq(stripped, kept))

\* hashlib.sha256(norm_src.encode("utf-8")).hexdigest(), injective
PyFuncHash(func_source) == PyNormalize(func_source)

(***************************************************************************)
(* core/analyzers/js_analyzer.py, _normalize_code_for_hash (149-156)       *)
(***************************************************************************)
\* re.sub(r"//.*?$", "", code, flags=re.MULTILINE): from each "//" up to,
\* not including, the end of its line
RECURSIVE RemoveLineComments(_)
RemoveLineComments(t) ==
    IF t = <<>> THEN <<>>
    ELSE IF Head(t) = "//"
         THEN RemoveLineComments(SubSeq(t, FirstIn(t, {"\n"}, 1), Len(t)))
         ELSE <<Head(t)>> \o RemoveLineComments(Tail(t))

\* re.sub(r"/\*.*?\*/", "", code, flags=re.DOTALL): from each "/*" through
\* the first "*/" after it; a "/*" that is never closed stays
RECURSIVE RemoveBlockComments(_)
RemoveBlockComments(t) ==
    IF t = <<>> THEN <<>>
    ELSE IF Head(t) = "/*" /\ FirstIn(t, {"*/"}, 2) <= Len(t)
         THEN RemoveBlockComments(SubSeq(t, FirstIn(t, {"*/"}, 2) + 1, Len(t)))
         ELSE <<Head(t)>> \o RemoveBlockComments(Tail(t))

\* re.sub(r"\s+", " ", code): every run of whitespace becomes one space
RECURSIVE CollapseWhitespace(_)
CollapseWhitespace(t) ==
    IF t = <<>> THEN <<>>
    ELSE IF Head(t) \in Whitespace
         THEN <<" ">> \o CollapseWhitespace(LStrip(t))
         ELSE <<Head(t)>> \o CollapseWhitespace(Tail(t))

\* _normalize_code_for_hash
_normalize_code_for_hash(code) ==
    Strip(CollapseWhitespace(RemoveBlockComments(RemoveLineComments(code))))

(***************************************************************************)
(* Issues.  An issue dict is a record; lineno, occurrences and score are   *)
(* optional integers.  An id is the 4-tuple <<prefix, file, line, tag>>:   *)
(* the prefix followed by the sha256 of "file:line:tag", which is          *)
(* injective in (file, line, tag).                                         *)
(***************************************************************************)
\* _hash_issue(file, lineno, category), in both analyzers
_hash_issue(file, lineno, category) == <<file, lineno, category>>

Issue(id, category, severity, file, lineno, evidence) ==
    [id |-> id, category |-> category, severity |-> severity, file |-> file,
     lineno |-> lineno, evidence |-> evidence, occurrences |-> NoInt, score |-> NoInt]

\* the elements of s at the first position each value occurs at, in order
FirstOccurrences(s) ==
    LET first(k) == \A j \in 1..(k - 1) : s[j] # s[k]
        idx == SelectSeq([k \in 1..Len(s) |-> k], first)
    IN  [k \in 1..Len(idx) |-> s[idx[k]]]

\* the elements of a set of integers in ascending order
RECURSIVE Ascending(_)
Ascending(S) ==
    IF S = {} THEN <<>>
    ELSE LET m == CHOOSE x \in S : \A y \in S : x <= y
         IN  <<m>> \o Ascending(S \ {m})

(***************************************************************************)
(* core/analyzers/python_analyzer.py                                       *)
(*                                                                         *)
(* A Python file is what ast gives for it: whether it parses, its          *)
(* function definitions in ast.walk order (name, line, source segment),    *)
(* its calls in visitor order (line, called name) and the lines that hold  *)
(* TODO or FIXME.  radon is an optional dependency (cc_visit is None       *)
(* without it) and is modelled as not installed.                           *)
(***************************************************************************)
\* the occurrences of "if", "for", "while", "and", "or" inside one symbol,
\* as str.count finds them: "for" holds "for" and "or", and so does the
\* identifier "format"
KeywordHits(sym) ==
    CASE sym = "if" -> 1 [] sym = "for" -> 2 [] sym = "while" -> 1
      [] sym = "and" -> 1 [] sym = "or" -> 1 [] sym = "format" -> 2 [] OTHER -> 0

\* _approx_complexity counting keyword tokens, each once
ApproxComplexityByToken(source) ==
    Cardinality({k \in 1..Len(source) : source[k] \in {"if", "for", "while", "and", "or"}}) + 1

\* _approx_complexity(source)
_approx_complexity(source) == SumSeq([k \in 1..Len(source) |-> KeywordHits(source[k])]) + 1

\* visit_Call reporting every call, deny-listed or not, as high
PySecurityIssueFlaggingAll(call, rel_path) ==
    <<[id |-> <<"PY-SEC-", rel_path, call.lineno, call.func_name>>, category |-> "security",
       severity |-> "high", file |-> rel_path, lineno |-> <<call.lineno>>,
       evidence |-> <<call.func_name>>, occurrences |-> <<>>, score |-> <<>>]>>

\* one visit_Call of SecurityVisitor: the issues the call adds
PySecurityIssue(call, rel_path) ==
    IF call.func_name \in {"eval", "exec"}
    THEN <<Issue(<<"PY-SEC-">> \o _hash_issue(rel_path, call.lineno, call.func_name),
                 "security", "high", rel_path, Some(call.lineno), <<call.func_name>>)>>
    ELSE IF call.func_name = "literal_eval"
    THEN <<Issue(<<"PY-SEC-">> \o _hash_issue(rel_path, call.lineno, call.func_name),
                 "security", "medium", rel_path, Some(call.lineno), <<call.func_name>>)>>
    ELSE IF call.func_name \in {"system"}
    THEN <<Issue(<<"PY-SEC-">> \o _hash_issue(rel_path, call.lineno, call.func_name),
                 "security", "high", rel_path, Some(call.lineno), <<call.func_name>>)>>
    ELSE <<>>

\* _detect_security_issues(tree, source, rel_path)
_detect_security_issues(calls, rel_path) ==
    Concat([k \in 1..Len(calls) |-> PySecurityIssue(calls[k], rel_path)])

\* the complexity issues of the functions of one file (147-172)
PyComplexityIssues(f) ==
    Concat([k \in 1..Len(f.funcs) |->
        IF _approx_complexity(f.funcs[k].source) > 10
        THEN <<Issue(<<"PY-CPLX-">> \o _hash_issue(f.path, f.funcs[k].lineno, "complexity"),
                     "complexity", "high", f.path, Some(f.funcs[k].lineno), <<"func_source">>)>>
        ELSE <<>>])

\* the TODO issues of one file (186-197), by ascending line
PyTodoIssues(f) ==
    LET lines == Ascending(f.todos)
    IN  [k \in 1..Len(lines) |->
            Issue(<<"PY-TODO-">> \o _hash_issue(f.path, lines[k], "todo"),
                  "documentation", "low", f.path, Some(lines[k]), <<"todo">>)]

\* the issues one file adds, in the order the loop body appends them (121-204)
\* PyFileIssues with the except branch of ast.parse adding no issue
PyFileIssuesSilentOnParseFailure(f) ==
    IF ~f.parses
    THEN <<>>
    ELSE PyComplexityIssues(f) \o PyTodoIssues(f) \o _detect_security_issues(f.calls, f.path)

PyFileIssues(f) ==
    IF ~f.parses
    THEN <<Issue(<<"PY-PARSE-">> \o _hash_issue(f.path, 0, "parsing"),
                 "parsing", "medium", f.path, NoInt, <<"source">>)>>
    ELSE PyComplexityIssues(f) \o PyTodoIssues(f) \o _detect_security_issues(f.calls, f.path)

\* file_report of one file
PyFileReport(f) ==
    IF ~f.parses
    THEN [functions |-> <<>>, todos |-> <<>>, security_warnings |-> <<>>,
          duplication_hashes |-> <<>>]
    ELSE [functions |-> [k \in 1..Len(f.funcs) |->
                            [name |-> f.funcs[k].name, lineno |-> f.funcs[k].lineno,
                             cc |-> _approx_complexity(f.funcs[k].source)]],
          todos |-> Ascending(f.todos),
          security_warnings |-> _detect_security_issues(f.calls, f.path),
          duplication_hashes |-> [k \in 1..Len(f.funcs) |-> PyFuncHash(f.funcs[k].source)]]

\* packages (207): the directories of the root that hold an __init__.py;
\* repo_path.iterdir() leaves no directory out
PyPackages(r) == r.packages \o (IF r.ignored.package THEN <<"/repo/env">> ELSE <<>>)

\* the testing-gap issues (206-220): one per package when the root has no tests/
PyTestingIssues(r) ==
    IF ~r.tests_dir /\ PyPackages(r) # <<>>
    THEN [k \in 1..Len(PyPackages(r)) |->
            Issue(<<"PY-TEST-">> \o _hash_issue(PyPackages(r)[k], 0, "testing"),
                  "testing", "missing", PyPackages(r)[k], NoInt, <<"Missing tests/ directory.">>)]
    ELSE <<>>

\* SecurityVisitor().visit(tree) (102) raises on some file of the walk: a
\* file that parses and is nested too deeply for the recursive visit
SecurityVisitorRaises(r) == \E k \in 1..Len(r.py) : r.py[k].parses /\ r.py[k].deep

\* analyze_python_repo(path): the files map and the issue list, when no
\* detector raises
analyze_python_repo(r) ==
    [files  |-> [p \in {r.py[k].path : k \in 1..Len(r.py)} |->
                    PyFileReport(CHOOSE f \in {r.py[k] : k \in 1..Len(r.py)} : f.path = p)],
     issues |-> Concat([k \in 1..Len(r.py) |-> PyFileIssues(r.py[k])])
                \o PyTestingIssues(r)]

(***************************************************************************)
(* core/analyzers/js_analyzer.py                                           *)
(*                                                                         *)
(* A JS file is what the extraction gives for it, on the tree-sitter path  *)
(* or on the regex path: the functions (name, line, body text from the     *)
(* signature on), the suspicious constructs (type, line) and the lines     *)
(* that hold TODO or FIXME.                                                *)
(***************************************************************************)
\* the TODO issues of one file (223-235)
JsTodoIssues(f) ==
    LET lines == Ascending(f.todos)
    IN  [k \in 1..Len(lines) |->
            Issue(<<"JS-DOC-">> \o _hash_issue(f.path, lines[k], "todo"),
                  "documentation", "low", f.path, Some(lines[k]), <<"todo">>)]

\* the security issues of one file (300-312)
JsSecurityIssues(f) ==
    [k \in 1..Len(f.warnings) |->
        Issue(<<"JS-SEC-">> \o _hash_issue(f.path, f.warnings[k].lineno, f.warnings[k].type),
              "security",
              IF f.warnings[k].type \in {"eval", "new_function", "dom-xss"} THEN "high" ELSE "medium",
              f.path, Some(f.warnings[k].lineno), <<f.warnings[k].type>>)]

\* the duplication hashes of one file (314-322): the empty normal form is skipped
JsDuplicationHashes(f) ==
    LET norms == [k \in 1..Len(f.functions) |-> _normalize_code_for_hash(f.functions[k].body)]
        nonempty(n) == n # <<>>
    IN  SelectSeq(norms, nonempty)

JsFileReport(f) ==
    [functions |-> [k \in 1..Len(f.functions) |->
                       [name |-> f.functions[k].name, lineno |-> f.functions[k].lineno]],
     todos |-> Ascending(f.todos),
     security_warnings |-> f.warnings,
     duplication_hashes |-> JsDuplicationHashes(f)]

\* all_hash_to_locations as the list of (hash, file) in the order of the two
\* loops at 329-331: files in insertion order, hashes in list order
JsHashLocations(js) ==
    Concat([k \in 1..Len(js) |->
        LET hs == JsDuplicationHashes(js[k])
        IN  [j \in 1..Len(hs) |-> [hash |-> hs[j], file |-> js[k].path]]])

\* all_hash_to_locations[h]
JsLocations(js, h) ==
    LET pairs == JsHashLocations(js)
        ofh(pr) == pr.hash = h
        mine == SelectSeq(pairs, ofh)
    IN  [k \in 1..Len(mine) |-> mine[k].file]

\* the duplication issues (333-346), one per hash with more than one location
JsDuplicationIssues(js) ==
    LET pairs == JsHashLocations(js)
        keys == FirstOccurrences([k \in 1..Len(pairs) |-> pairs[k].hash])
    IN  Concat([k \in 1..Len(keys) |->
            LET locations == JsLocations(js, keys[k])
            IN  IF Len(locations) > 1
                THEN <<Issue(<<"JS-DUP-">> \o _hash_issue(locations[1], 0, "duplication"),
                             "duplication", "medium", locations[1], NoInt, locations)>>
                ELSE <<>>])

\* has_tests (348-370): a test script in package.json, or a __tests__
\* directory or test file met by an os.walk that prunes no directory
JsHasTests(r) == r.js_tests \/ r.ignored.tests

\* the testing-gap issue (348-382)
JsTestingIssues(r) ==
    IF ~JsHasTests(r)
    THEN <<Issue(<<"JS-TEST-">> \o _hash_issue(r.root, 0, "testing"),
                 "testing", "missing", r.root, NoInt, <<"No tests found">>)>>
    ELSE <<>>

\* analyze_js_repo(path): the files map and the issue list
analyze_js_repo(r) ==
    [files  |-> [p \in {r.js[k].path : k \in 1..Len(r.js)} |->
                    JsFileReport(CHOOSE f \in {r.js[k] : k \in 1..Len(r.js)} : f.path = p)],
     issues |-> Concat([k \in 1..Len(r.js) |->
                    JsTodoIssues(r.js[k]) \o JsSecurityIssues(r.js[k])])
                \o JsDuplicationIssues(r.js) \o JsTestingIssues(r)]

(***************************************************************************)
(* core/analyzers/manager.py, analyze_repo                                 *)
(***************************************************************************)
\* the dict a updated with the dict b (dict.update)
DictUpdate(a, b) ==
    [k \in DOMAIN a \cup DOMAIN b |-> IF k \in DOMAIN b THEN b[k] ELSE a[k]]

EmptyDict == [k \in {} |-> k]

\* lines 89-91: an issue without an id gets "ISSUE-<position>"
AssignIds(iss) ==
    [k \in 1..Len(iss) |->
        IF iss[k].id = <<>> THEN [iss[k] EXCEPT !.id = <<"ISSUE-", "", k, "">>] ELSE iss[k]]

\* the deduplication that keeps every entry (no dict is built)
DedupKeepingAll(iss) == iss

\* lines 93-94: {issue["id"]: issue for issue in issues}, then list(values()):
\* one entry per id, at the position of its first occurrence, holding its last
DedupById(iss) ==
    LET ids == FirstOccurrences([k \in 1..Len(iss) |-> iss[k].id])
        last(id) == CHOOSE k \in 1..Len(iss) :
                        /\ iss[k].id = id
                        /\ \A j \in (k + 1)..Len(iss) : iss[j].id # id
    IN  [k \in 1..Len(ids) |-> iss[last(ids[k])]]

\* lines 101-106: file -> the number of issues that name it
FileHotnessMap(iss) ==
    LET named == {iss[k].file : k \in 1..Len(iss)} \ {None}
    IN  [f \in named |-> Cardinality({k \in 1..Len(iss) : iss[k].file = f})]

\* lines 80-86
UnsupportedLanguageIssue(lang) ==
    Issue(<<"unknown-", "", 0, lang>>, "warning", "low", None, NoInt, <<>>)

\* one turn of the per-language loop, lang == "py" (68-73)
AnalyzePython ==
    /\ pc = "loop"
    /\ repo.exists
    /\ lang_idx <= Len(languages)
    /\ languages[lang_idx] = "py"
    /\ ~SecurityVisitorRaises(repo)
    /\ LET py_result == analyze_python_repo(repo)
       IN  /\ issues' = issues \o py_result.issues
           /\ files' = DictUpdate(files, py_result.files)
           /\ languages_used' = Append(languages_used, "py")
    /\ lang_idx' = lang_idx + 1
    /\ UNCHANGED <<repo, languages, pc, aggregated, overall_score, scoreVars, normVars, extVars>>

\* lang == "py" and a detector raises inside analyze_python_repo: nothing
\* between the detector and the caller of analyze_repo catches it
AnalyzePythonRaises ==
    /\ pc = "loop"
    /\ repo.exists
    /\ lang_idx <= Len(languages)
    /\ languages[lang_idx] = "py"
    /\ SecurityVisitorRaises(repo)
    /\ pc' = "raised RecursionError"
    /\ UNCHANGED <<repo, languages, lang_idx, issues, files, languages_used, aggregated,
                   overall_score, scoreVars, normVars, extVars>>

\* one turn of the per-language loop, lang == "js" (74-79)
AnalyzeJs ==
    /\ pc = "loop"
    /\ repo.exists
    /\ lang_idx <= Len(languages)
    /\ languages[lang_idx] = "js"
    /\ LET js_result == analyze_js_repo(repo)
       IN  /\ issues' = issues \o js_result.issues
           /\ files' = DictUpdate(files, js_result.files)
           /\ languages_used' = Append(languages_used, "js")
    /\ lang_idx' = lang_idx + 1
    /\ UNCHANGED <<repo, languages, pc, aggregated, overall_score, scoreVars, normVars, extVars>>

\* one turn of the per-language loop, any other language (80-86)
UnsupportedLanguage ==
    /\ pc = "loop"
    /\ repo.exists
    /\ lang_idx <= Len(languages)
    /\ languages[lang_idx] \notin {"py", "js"}
    /\ issues' = Append(issues, UnsupportedLanguageIssue(languages[lang_idx]))
    /\ lang_idx' = lang_idx + 1
    /\ UNCHANGED <<repo, languages, pc, files, languages_used, aggregated, overall_score,
                   scoreVars, normVars, extVars>>

\* after the loop (88-155): ids, deduplication, hotness, scores, overall
\* score, and the result is returned
Aggregate ==
    /\ pc = "loop"
    /\ repo.exists
    /\ lang_idx > Len(languages)
    /\ LET with_ids == AssignIds(issues)
           unique == DedupById(with_ids)
           enriched == enrich_issues_with_scores(unique, FileHotnessMap(unique))
       IN  /\ aggregated' = with_ids
           /\ issues' = enriched
           /\ overall_score' = compute_overall_score(enriched, Cardinality(DOMAIN files), <<1, 1>>)
    /\ pc' = "done"
    /\ UNCHANGED <<repo, languages, lang_idx, files, languages_used, scoreVars, normVars, extVars>>

\* the path does not exist (47-49)
PathDoesNotExist ==
    /\ pc = "loop"
    /\ ~repo.exists
    /\ pc' = "raised FileNotFoundError"
    /\ UNCHANGED <<repo, languages, lang_idx, issues, files, languages_used, aggregated,
                   overall_score, scoreVars, normVars, extVars>>

(***************************************************************************)
(* The repositories and language lists analyze_repo is run on.             *)
(***************************************************************************)
MaxCalls == 2

MaxWarnings == 1

Root == "/repo"

CallLines == {1}

TodoLines == {1, 2}

PyCallNames == {"eval", "exec", "literal_eval", "system"}

\* the source segment of "def <name>" with the given body
PySource(name, body) == <<"def", " ", name, "(", ")", ":", "\n">> \o body

SimpleBody == <<" ", "x">>

ComplexBody == <<" ", "if", " ", "if", " ", "if", " ", "for", " ", "for", " ", "while", " ",
                 "and", " ", "or", " ", "x">>

\* a function definition as ast gives it; body is the source below the def line
PyFunction(name, body) ==
    [name |-> name, lineno |-> 1, body |-> body, source |-> PySource(name, body)]

PyFunctions ==
    {PyFunction("f", SimpleBody), PyFunction("g", SimpleBody), PyFunction("f", ComplexBody)}

SeqsUpTo(S, n) == UNION {[1..m -> S] : m \in 0..n}

PyCalls == [lineno : CallLines, func_name : PyCallNames]

\* a Python file with any content within the bounds
PyRichFiles(path) ==
    {[path |-> path, parses |-> FALSE, funcs |-> <<>>, calls |-> <<>>, todos |-> {},
      deep |-> FALSE]}
    \cup [path : {path}, parses : {TRUE}, funcs : SeqsUpTo(PyFunctions, 1),
          calls : SeqsUpTo(PyCalls, MaxCalls), todos : SUBSET TodoLines, deep : {FALSE}]

\* a second Python file: unparsable, one function, one call of eval, or one
\* call of a function that is on no deny-list
PyPoorFiles(path) ==
    {[path |-> path, parses |-> FALSE, funcs |-> <<>>, calls |-> <<>>, todos |-> {},
      deep |-> FALSE],
     [path |-> path, parses |-> TRUE, funcs |-> <<>>, todos |-> {}, deep |-> FALSE,
      calls |-> <<[lineno |-> 1, func_name |-> "print"]>>],
     [path |-> path, parses |-> TRUE, calls |-> <<>>, todos |-> {}, deep |-> FALSE,
      funcs |-> <<PyFunction("f", SimpleBody)>>],
     [path |-> path, parses |-> TRUE, funcs |-> <<>>, todos |-> {}, deep |-> FALSE,
      calls |-> <<[lineno |-> 1, func_name |-> "eval"]>>]}

\* a Python file that parses, holds a TODO and a call of eval, and whose
\* syntax tree nests deeper than the interpreter's recursion limit, so that
\* SecurityVisitor.generic_visit raises RecursionError
PyDeepFiles(path) ==
    {[path |-> path, parses |-> TRUE, funcs |-> <<>>, todos |-> {1}, deep |-> TRUE,
      calls |-> <<[lineno |-> 1, func_name |-> "eval"]>>]}

\* the files of one language in os.walk order: none, the first alone, or both
\* in either order
WalkOrders(A, B) ==
    {<<>>} \cup {<<a>> : a \in A} \cup {<<a, b>> : a \in A, b \in B} \cup {<<b, a>> : a \in A, b \in B}

JsBodies == {<<"x">>, <<"/*", "c", "*/", "x">>}

\* the text of "function <name>() { <inner> }", from the signature on
JsFunctionText(name, inner) ==
    <<"function", " ", name, "(", ")", " ", "{">> \o inner \o <<"}">>

\* an extracted function; inner is the text between its braces
JsFunction(name, inner) ==
    [name |-> name, lineno |-> 1, inner |-> inner, body |-> JsFunctionText(name, inner)]

JsFunctions == {JsFunction(n, b) : n \in {"f", "g"}, b \in JsBodies}

\* lists of at most two functions, no two with the same (name, lineno) (138-146)
JsFunctionLists ==
    {s \in SeqsUpTo(JsFunctions, 2) :
        \A i, j \in 1..Len(s) : i # j => <<s[i].name, s[i].lineno>> # <<s[j].name, s[j].lineno>>}

JsWarningTypes == {"eval", "new_function", "innerHTML", "document_write", "dom-xss"}

JsWarnings == [type : JsWarningTypes, lineno : CallLines]

JsRichFiles(path) ==
    [path : {path}, functions : JsFunctionLists, warnings : SeqsUpTo(JsWarnings, MaxWarnings),
     todos : SUBSET CallLines]

JsPoorFiles(path) ==
    [path : {path}, functions : JsFunctionLists, warnings : {<<>>}, todos : {{}}]

PackageLayouts ==
    {[packages |-> <<>>, tests_dir |-> FALSE],
     [packages |-> <<"/repo/pkg">>, tests_dir |-> FALSE],
     [packages |-> <<"/repo/pkg">>, tests_dir |-> TRUE],
     [packages |-> <<"/repo/pkg", "/repo/lib">>, tests_dir |-> FALSE]}

\* what lies under the ignored directories of a root: JS files under
\* node_modules, a test file under node_modules, an __init__.py in env/
NoIgnored == [js |-> <<>>, tests |-> FALSE, package |-> FALSE]

IgnoredContents ==
    [js : {<<>>, <<[path |-> "node_modules/x.js", functions |-> <<>>, warnings |-> <<>>,
                    todos |-> {1}]>>},
     tests : BOOLEAN, package : BOOLEAN]

\* py and js are the files outside the ignored directories (the walks of
\* both analyzers prune those), packages the package directories other than
\* ignored ones, js_tests the test markers outside the ignored directories
MakeRepo(py, js, layout, js_tests) ==
    [root |-> Root, exists |-> TRUE, py |-> py, js |-> js, packages |-> layout.packages,
     tests_dir |-> layout.tests_dir, js_tests |-> js_tests, ignored |-> NoIgnored]

\* a path at which nothing exists
NoRepo ==
    [MakeRepo(<<>>, <<>>, [packages |-> <<>>, tests_dir |-> FALSE], FALSE)
        EXCEPT !.exists = FALSE]

\* the language lists small repositories of both languages are analysed under;
\* <<"py", "js">> is the default
LanguageLists ==
    {<<"py", "js">>, <<"js", "py">>, <<"py", "rb">>, <<"rb", "go">>, <<"py", "py">>, <<>>}

\* Python repositories, analysed for Python
PyRuns ==
    \E py \in WalkOrders(PyRichFiles("a.py"), PyPoorFiles("b.py")), layout \in PackageLayouts :
        /\ repo = MakeRepo(py, <<>>, layout, TRUE)
        /\ languages = <<"py">>

\* JS repositories, analysed for JS
JsRuns ==
    \E js \in WalkOrders(JsRichFiles("a.js"), JsPoorFiles("b.js")), js_tests \in BOOLEAN :
        /\ repo = MakeRepo(<<>>, js, [packages |-> <<>>, tests_dir |-> FALSE], js_tests)
        /\ languages = <<"js">>

\* small repositories of both languages, under every language list
MixedRuns ==
    \E ls \in LanguageLists,
       py \in WalkOrders(PyPoorFiles("a.py"), PyPoorFiles("b.py")),
       js \in WalkOrders(JsPoorFiles("a.js"), {}),
       layout \in {l \in PackageLayouts : Len(l.packages) <= 1 /\ ~l.tests_dir},
       js_tests \in BOOLEAN :
        /\ repo = MakeRepo(py, js, layout, js_tests)
        /\ languages = ls

\* repositories with a file on which the security detector raises
DeepRuns ==
    \E ls \in {<<"py">>, <<"py", "js">>, <<"js", "py">>},
       py \in WalkOrders(PyDeepFiles("a.py"), PyPoorFiles("b.py")) :
        /\ py # <<>>
        /\ repo = MakeRepo(py, <<>>, [packages |-> <<>>, tests_dir |-> FALSE], TRUE)
        /\ languages = ls

\* repositories with ignored directories, under the default language list
IgnoredRuns ==
    \E js \in WalkOrders(JsPoorFiles("a.js"), {}),
       layout \in {l \in PackageLayouts : Len(l.packages) <= 1 /\ ~l.tests_dir},
       js_tests \in BOOLEAN,
       ig \in IgnoredContents \ {NoIgnored} :
        /\ repo = [MakeRepo(<<>>, js, layout, js_tests) EXCEPT !.ignored = ig]
        /\ languages = <<"py", "js">>

\* a root path that does not exist, under every language list
MissingRuns ==
    \E ls \in LanguageLists :
        /\ repo = NoRepo
        /\ languages = ls

ScoreIdle ==
    /\ sc_issues = <<>>
    /\ sc_hotness = EmptyDict
    /\ sc_size = 0
    /\ sc_trend = <<1, 1>>
    /\ sc_overall = None
    /\ sc_prev = None
    /\ sc_last = "idle"

NormIdle ==
    /\ nm_lang = "py"
    /\ nm_f = [name |-> "f", inner |-> <<>>]
    /\ nm_g = [name |-> "f", inner |-> <<>>]
    /\ nm_hash_f = <<>>
    /\ nm_hash_g = <<>>
    /\ nm_pc = "idle"

CplxIdle ==
    /\ cx_counts = <<>>
    /\ cx_cc = 0
    /\ cx_issues = <<>>
    /\ cx_pc = "idle"

JsSecIdle ==
    /\ js_source = <<>>
    /\ js_tree_sitter = FALSE
    /\ js_warnings = <<>>
    /\ js_sec_issues = <<>>
    /\ js_pc = "idle"

XrefIdle ==
    /\ xr_files = <<>>
    /\ xr_symbol_table = <<>>
    /\ xr_call_graph = <<>>
    /\ xr_edges = <<>>
    /\ xr_nodes = <<>>
    /\ xr_hotspots = <<>>
    /\ xr_pc = "idle"

JsFnIdle ==
    /\ fx_source = <<>>
    /\ fx_matches = <<>>
    /\ fx_m = 0
    /\ fx_i = 0
    /\ fx_brace = 0
    /\ fx_functions = <<>>
    /\ fx_pc = "idle"

JobIdle ==
    /\ jb_jobs = <<>>
    /\ jb_pc = <<>>
    /\ jb_local = <<>>
    /\ jb_observed = <<>>
    /\ st_index = <<>>
    /\ st_files = <<>>

StdIdle ==
    /\ sd_raw = <<>>
    /\ sd_out = <<>>
    /\ sd_pc = "idle"

ChunkIdle ==
    /\ ck_len = 0
    /\ ck_max = 0
    /\ ck_start = 0
    /\ ck_chunks = <<>>
    /\ ck_pc = "idle"

\* the specifications of the utilities are not driven
UtilIdle == StdIdle /\ ChunkIdle

ExtIdle == CplxIdle /\ JsSecIdle /\ XrefIdle /\ JsFnIdle /\ JobIdle /\ UtilIdle

Init ==
    /\ (PyRuns \/ JsRuns \/ MixedRuns \/ DeepRuns \/ IgnoredRuns \/ MissingRuns)
    /\ pc = "loop"
    /\ lang_idx = 1
    /\ issues = <<>>
    /\ files = EmptyDict
    /\ languages_used = <<>>
    /\ aggregated = <<>>
    /\ overall_score = 100
    /\ ScoreIdle
    /\ NormIdle
    /\ ExtIdle

Next ==
    \/ PathDoesNotExist
    \/ AnalyzePython
    \/ AnalyzePythonRaises
    \/ AnalyzeJs
    \/ UnsupportedLanguage
    \/ Aggregate

Spec == Init /\ [][Next]_vars

(***************************************************************************)
(* Properties of analyze_repo (Spec)                                       *)
(***************************************************************************)
Indices(s) == 1..Len(s)

DuplicationIssues == {k \in Indices(issues) : issues[k].category = "duplication"}

\* C1: when analyze_repo has returned, no two issues of the result share an
\* id, and every id of the aggregated list is the id of exactly one issue of
\* the result.
C1_NoTwoIssuesShareAnId ==
    pc = "done" =>
        /\ \A i, j \in Indices(issues) : i # j => issues[i].id # issues[j].id
        /\ \A a \in Indices(aggregated) :
              Cardinality({k \in Indices(issues) : issues[k].id = aggregated[a].id}) = 1

\* C1 witness: a run whose aggregated list held the same id twice
C1_Witness ==
    /\ pc = "done"
    /\ \E i, j \in Indices(aggregated) : i # j /\ aggregated[i].id = aggregated[j].id

\* the issues the Python and JS analyzers emitted
AnalyzerIssues == {k \in Indices(issues) : issues[k].id[1] # "unknown-"}

\* C2: the id of an issue the analyzers emitted is a function of its
\* (file, line, category): two issues of a result with the same file, line
\* and category have the same id.
C2_IdIsFunctionOfFileLineCategory ==
    pc = "done" =>
        \A i, j \in AnalyzerIssues :
            (/\ issues[i].file = issues[j].file
             /\ issues[i].lineno = issues[j].lineno
             /\ issues[i].category = issues[j].category) => issues[i].id = issues[j].id

\* the score the scoring formula gives for base b, hotness h, occurrences n
FormulaScore(b, h, n) == Max(0, Min(100, b + 5 * Min(3, h) - 10 * (n - 1)))

ClassBase(sev) ==
    CASE sev = "critical" -> 95 [] sev = "high" -> 75 [] sev = "medium" -> 40 [] sev = "low" -> 10

OccurrencesOf(i) == IF i.occurrences = NoInt THEN 1 ELSE Val(i.occurrences)

\* the number of issues of the result whose file equals that of issue k
SameFileCount(k) == Cardinality({j \in Indices(issues) : issues[j].file = issues[k].file})

\* C3 as claimed: every issue of the result of severity critical, high,
\* medium or low scores max(0, min(100, base + 5*min(3, h) - 10*(occurrences - 1)))
\* with h the number of issues of the result whose file equals its file.
C3_ScoreByFileCount ==
    pc = "done" =>
        \A k \in Indices(issues) :
            issues[k].severity \in Severities =>
                issues[k].score = Some(FormulaScore(ClassBase(issues[k].severity),
                                                    SameFileCount(k), OccurrencesOf(issues[k])))

\* C3 as amended: the same, with h = 1 for an issue that names no file.
C3_ScoreByFileCountOrOne ==
    pc = "done" =>
        \A k \in Indices(issues) :
            issues[k].severity \in Severities =>
                issues[k].score = Some(FormulaScore(ClassBase(issues[k].severity),
                                           IF issues[k].file = None THEN 1 ELSE SameFileCount(k),
                                           OccurrencesOf(issues[k])))

\* C3 witness: a result with an issue of a severity class in a file that
\* holds more than three issues, where the cap min(3, h) decides the score
C3_Witness ==
    /\ pc = "done"
    /\ \E k \in Indices(issues) :
          issues[k].severity \in Severities /\ issues[k].file # None /\ SameFileCount(k) > 3

\* the files of one language that define exactly one function, with the
\* normal form of that function's body
PyOneFunctionFiles ==
    {f \in {repo.py[k] : k \in Indices(repo.py)} : f.parses /\ Len(f.funcs) = 1}

JsOneFunctionFiles ==
    {f \in {repo.js[k] : k \in Indices(repo.js)} : Len(f.functions) = 1}

\* the one duplication issue of the result references both paths
OneDuplicationIssueFor(p, q) ==
    /\ Cardinality(DuplicationIssues) = 1
    /\ \A k \in DuplicationIssues :
          {p, q} \subseteq {issues[k].evidence[e] : e \in Indices(issues[k].evidence)}

\* C8: when the repository holds two files of one language, each defining
\* one function, and the two bodies are identical after normalisation, the
\* result of analysing that language holds exactly one duplication issue,
\* whose evidence references both files.
C8_IdenticalBodiesGiveOneDuplicationIssue ==
    pc = "done" =>
        /\ (languages = <<"py">> /\ Len(repo.py) = 2) =>
              \A f, g \in PyOneFunctionFiles :
                  (f.path # g.path /\ PyNormalize(f.funcs[1].body) = PyNormalize(g.funcs[1].body))
                      => OneDuplicationIssueFor(f.path, g.path)
        /\ (languages = <<"js">> /\ Len(repo.js) = 2) =>
              \A f, g \in JsOneFunctionFiles :
                  (/\ f.path # g.path
                   /\ _normalize_code_for_hash(f.functions[1].inner)
                        = _normalize_code_for_hash(g.functions[1].inner))
                      => OneDuplicationIssueFor(f.path, g.path)

\* the duplication hashes the result's files map records, and how often each
\* occurs in a file
RecordedHashes ==
    UNION {{files[p].duplication_hashes[k] : k \in Indices(files[p].duplication_hashes)} :
              p \in DOMAIN files}

CountIn(s, x) == Cardinality({k \in Indices(s) : s[k] = x})

LocationCount(h) ==
    LET paths == DOMAIN files
        n[S \in SUBSET paths] ==
            IF S = {} THEN 0
            ELSE LET p == CHOOSE x \in S : TRUE
                 IN  CountIn(files[p].duplication_hashes, h) + n[S \ {p}]
    IN  n[paths]

DuplicatedHashes == {h \in RecordedHashes : LocationCount(h) > 1}

\* issue k evidences every location of hash h, each as often as it occurs
EvidencesAllLocations(k, h) ==
    \A p \in DOMAIN files :
        CountIn(issues[k].evidence, p) = CountIn(files[p].duplication_hashes, h)

\* C9: for every hash recorded at more than one location the result holds
\* exactly one duplication issue evidencing all its locations, and the
\* result holds as many duplication issues as there are duplicated hashes.
C9_OneDuplicationIssuePerHash ==
    pc = "done" =>
        /\ \A h \in DuplicatedHashes :
              Cardinality({k \in DuplicationIssues : EvidencesAllLocations(k, h)}) = 1
        /\ Cardinality(DuplicationIssues) = Cardinality(DuplicatedHashes)

(***************************************************************************)
(* SpecScore: the scorer driven directly.  The caller hands an issue list, *)
(* a hotness map, a repository size and a trend factor to                  *)
(* enrich_issues_with_scores and compute_overall_score; then one issue is  *)
(* made worse and the list is scored again.                                *)
(***************************************************************************)
MaxIssues == 2

ScoreSeverities == Severities \cup {"missing"}

OccurrenceValues == {1, 2, 3}

ScoreFiles == {"a.py"}

HotnessValues == {1, 4}

RepoSizes == {0, 3, 60}

\* 1.0 (the default), 0.5 and -1.0: on these the exact quotient and the
\* IEEE double computed by the code truncate to the same integer.
TrendFactors == {<<1, 1>>, <<1, 2>>, <<-1, 1>>}

\* low < medium < high < critical
SeverityRank(s) ==
    CASE s = "low" -> 1 [] s = "medium" -> 2 [] s = "high" -> 3 [] s = "critical" -> 4 [] OTHER -> 0

ScoreIssueInputs ==
    [severity : ScoreSeverities, occurrences : {Some(n) : n \in OccurrenceValues},
     file : ScoreFiles \cup {None}, score : {NoInt}]

\* an order on the inputs, used only to enumerate each multiset of issues once
InputKey(i) ==
    SeverityRank(i.severity) * 100 + Val(i.occurrences) * 10 + (IF i.file = None THEN 0 ELSE 1)

ScoreIssueLists ==
    UNION {{s \in [1..n -> ScoreIssueInputs] :
              \A k \in 1..(n - 1) : InputKey(s[k]) <= InputKey(s[k + 1])} : n \in 0..MaxIssues}

RepoIdle ==
    /\ repo = MakeRepo(<<>>, <<>>, [packages |-> <<>>, tests_dir |-> FALSE], TRUE)
    /\ languages = <<>>
    /\ pc = "idle"
    /\ lang_idx = 1
    /\ issues = <<>>
    /\ files = EmptyDict
    /\ languages_used = <<>>
    /\ aggregated = <<>>
    /\ overall_score = 100

InitScore ==
    /\ RepoIdle
    /\ sc_issues \in ScoreIssueLists
    /\ sc_hotness \in [ScoreFiles -> HotnessValues]
    /\ sc_size \in RepoSizes
    /\ sc_trend \in TrendFactors
    /\ sc_overall = None
    /\ sc_prev = None
    /\ sc_last = "input"
    /\ NormIdle
    /\ ExtIdle

\* compute_overall_score on issues that carry no score yet (i.get("score", 40))
OverallOnly ==
    /\ sc_last = "input"
    /\ sc_overall' = compute_overall_score(sc_issues, sc_size, sc_trend)
    /\ sc_last' = "overall"
    /\ UNCHANGED <<sc_issues, sc_hotness, sc_size, sc_trend, sc_prev, repoVars, normVars, extVars>>

\* enrich_issues_with_scores, then compute_overall_score (manager.py 108-112)
ScoreIssues ==
    /\ sc_last = "input"
    /\ LET enriched == enrich_issues_with_scores(sc_issues, sc_hotness)
       IN  /\ sc_issues' = enriched
           /\ sc_overall' = compute_overall_score(enriched, sc_size, sc_trend)
    /\ sc_last' = "score"
    /\ UNCHANGED <<sc_hotness, sc_size, sc_trend, sc_prev, repoVars, normVars, extVars>>

\* the same list with issue k in a higher severity class, scored again
RaiseSeverity ==
    /\ sc_last = "score"
    /\ \E k \in 1..Len(sc_issues), s \in Severities :
          /\ sc_issues[k].severity \in Severities
          /\ SeverityRank(s) > SeverityRank(sc_issues[k].severity)
          /\ LET enriched == enrich_issues_with_scores(
                                 [sc_issues EXCEPT ![k].severity = s], sc_hotness)
             IN  /\ sc_issues' = enriched
                 /\ sc_overall' = compute_overall_score(enriched, sc_size, sc_trend)
    /\ sc_prev' = sc_overall
    /\ sc_last' = "raise_severity"
    /\ UNCHANGED <<sc_hotness, sc_size, sc_trend, repoVars, normVars, extVars>>

\* the same list with issue k occurring once more, scored again
RaiseOccurrences ==
    /\ sc_last = "score"
    /\ \E k \in 1..Len(sc_issues) :
          /\ Val(sc_issues[k].occurrences) + 1 \in OccurrenceValues
          /\ LET enriched == enrich_issues_with_scores(
                                 [sc_issues EXCEPT ![k].occurrences = Some(Val(@) + 1)], sc_hotness)
             IN  /\ sc_issues' = enriched
                 /\ sc_overall' = compute_overall_score(enriched, sc_size, sc_trend)
    /\ sc_prev' = sc_overall
    /\ sc_last' = "raise_occurrences"
    /\ UNCHANGED <<sc_hotness, sc_size, sc_trend, repoVars, normVars, extVars>>

NextScore == OverallOnly \/ ScoreIssues \/ RaiseSeverity \/ RaiseOccurrences

SpecScore == InitScore /\ [][NextScore]_vars

(***************************************************************************)
(* Properties of SpecScore                                                 *)
(***************************************************************************)
Scored == sc_last \in {"score", "raise_severity", "raise_occurrences"}

\* i.get("score", 40)
ScoreOrDefault(i) == IF i.score = NoInt THEN 40 ELSE Val(i.score)

\* t is the real number n/d truncated toward zero (d > 0)
IsTruncation(t, n, d) ==
    IF n >= 0 THEN t * d <= n /\ n < (t + 1) * d
              ELSE (t - 1) * d < n /\ n <= t * d

\* C4: compute_overall_score returns 100 when the issue list is empty or
\* repo_size <= 0; otherwise it returns
\* 100 - (mean score / 100 * min(repo_size, 50)) * trend_factor truncated to an
\* integer and clamped; the result is always within 0..100.
C4_OverallScoreFormula ==
    sc_last # "input" =>
        /\ sc_overall \in 0..100
        /\ (sc_issues = <<>> \/ sc_size <= 0) => sc_overall = 100
        /\ (sc_issues # <<>> /\ sc_size > 0) =>
              LET total == SumSeq([k \in 1..Len(sc_issues) |-> ScoreOrDefault(sc_issues[k])])
                  d == 100 * Len(sc_issues) * sc_trend[2]
                  n == 100 * d - total * Min(sc_size, 50) * sc_trend[1]
              IN  \E t \in -200..200 :
                     IsTruncation(t, n, d) /\ sc_overall = Max(0, Min(100, t))

\* C4 witness: scored issues in a repository of more than 50 files, where the
\* cap min(repo_size, 50) applies, the quotient is no integer and the
\* penalty lowers the score
C4_Witness ==
    /\ sc_last = "score"
    /\ sc_issues # <<>>
    /\ sc_size > 50
    /\ sc_overall < 100
    /\ LET total == SumSeq([k \in 1..Len(sc_issues) |-> ScoreOrDefault(sc_issues[k])])
       IN  (total * 50 * sc_trend[1]) % (100 * Len(sc_issues) * sc_trend[2]) # 0

\* C5: all else equal, raising the severity class of one issue
\* (low < medium < high < critical) never increases the overall score
\* computed from the enriched issues.
C5_OverallNonIncreasingInSeverity ==
    sc_last = "raise_severity" => sc_overall <= sc_prev

\* C5 witness: a raised severity class that lowers the overall score
C5_Witness ==
    sc_last = "raise_severity" /\ sc_overall < sc_prev

\* C6: all else equal, increasing the occurrence count of one issue never
\* increases the overall score computed from the enriched issues.
C6_OverallNonIncreasingInOccurrences ==
    sc_last = "raise_occurrences" => sc_overall <= sc_prev

\* C7 as claimed: an issue of severity 'missing' has base score 0, so it
\* scores max(0, min(100, 5*min(3, h) - 10*(occurrences - 1))).
C7_MissingHasNoBase ==
    Scored =>
        \A k \in 1..Len(sc_issues) :
            sc_issues[k].severity = "missing" =>
                sc_issues[k].score = Some(FormulaScore(0, HotnessOf(sc_issues[k], sc_hotness),
                                                       OccurrencesOf(sc_issues[k])))

\* C7 as amended: an issue of severity 'missing' is scored with the default
\* base 40, the base of medium:
\* max(0, min(100, 40 + 5*min(3, h) - 10*(occurrences - 1))).
C7_MissingHasDefaultBase ==
    Scored =>
        \A k \in 1..Len(sc_issues) :
            sc_issues[k].severity = "missing" =>
                sc_issues[k].score = Some(FormulaScore(40, HotnessOf(sc_issues[k], sc_hotness),
                                                       OccurrencesOf(sc_issues[k])))

\* C7 witness: a scored issue of severity 'missing' with a positive score
C7_Witness ==
    /\ sc_last = "score"
    /\ \E k \in 1..Len(sc_issues) :
          sc_issues[k].severity = "missing" /\ Val(sc_issues[k].score) > 0

(***************************************************************************)
(* SpecNorm: the duplication hash of two functions, as the Python analyzer *)
(* (python_analyzer.py 175-176) and the JS analyzer (js_analyzer.py        *)
(* 314-322) compute it.                                                    *)
(***************************************************************************)
MaxLines == 2

\* the lines of a Python function body: code, code with a trailing comment,
\* a comment on its own line, code with and without blanks around an operator
PyLines ==
    {<<" ", "x">>, <<" ", "x", " ", "#", "c">>, <<" ", "#", "c">>,
     <<" ", "x", "+", "x">>, <<" ", "x", " ", "+", " ", "x">>}

\* the same for JS, with both comment forms
JsLines ==
    {<<"x">>, <<"x", " ", "//", "c">>, <<"//", "c">>, <<"/*", "c", "*/">>,
     <<"x", " ", "/*", "c", "*/">>, <<"x", "+", "x">>, <<"x", " ", "+", " ", "x">>}

\* "\n".join(lines)
RECURSIVE JoinLines(_)
JoinLines(ls) ==
    IF ls = <<>> THEN <<>>
    ELSE IF Len(ls) = 1 THEN ls[1] ELSE ls[1] \o <<"\n">> \o JoinLines(Tail(ls))

\* the code symbols of one line: what is outside comments and is no whitespace
RECURSIVE LineCode(_, _)
LineCode(lang, line) ==
    IF line = <<>> THEN <<>>
    ELSE IF Head(line) \in Whitespace THEN LineCode(lang, Tail(line))
    ELSE IF lang = "py" /\ Head(line) = "#" THEN <<>>
    ELSE IF lang = "js" /\ Head(line) = "//" THEN <<>>
    ELSE IF lang = "js" /\ Head(line) = "/*"
         THEN LineCode(lang, SubSeq(line, FirstIn(line, {"*/"}, 2) + 1, Len(line)))
    ELSE <<Head(line)>> \o LineCode(lang, Tail(line))

\* the code of a body: the code symbols of its lines that hold code
CodeOf(lang, inner) ==
    LET lines == SplitLines(inner)
        holds_code(l) == l # <<>>
    IN  SelectSeq([k \in 1..Len(lines) |-> LineCode(lang, lines[k])], holds_code)

\* the bodies of up to MaxLines lines that hold code (a Python body of
\* comments alone does not parse)
BodiesOf(lang) ==
    LET Lines == IF lang = "py" THEN PyLines ELSE JsLines
    IN  {JoinLines(ls) : ls \in {l \in SeqsUpTo(Lines, MaxLines) :
                                    CodeOf(lang, JoinLines(l)) # <<>>}}

\* the text between the braces of a JS function, on lines of its own
JsInner(body) == <<"\n">> \o body \o <<"\n">>

InitNorm ==
    /\ RepoIdle
    /\ ScoreIdle
    /\ ExtIdle
    /\ nm_lang \in {"py", "js"}
    /\ nm_f \in [name : {"f"}, inner : BodiesOf(nm_lang)]
    /\ nm_g \in [name : {"f", "g"}, inner : BodiesOf(nm_lang)]
    /\ nm_hash_f = <<>>
    /\ nm_hash_g = <<>>
    /\ nm_pc = "input"

\* python_analyzer.py 148, 175-176, for both functions
HashPython ==
    /\ nm_pc = "input"
    /\ nm_lang = "py"
    /\ nm_hash_f' = PyFuncHash(PySource(nm_f.name, nm_f.inner))
    /\ nm_hash_g' = PyFuncHash(PySource(nm_g.name, nm_g.inner))
    /\ nm_pc' = "hashed"
    /\ UNCHANGED <<nm_lang, nm_f, nm_g, repoVars, scoreVars, extVars>>

\* js_analyzer.py 316-321, for both functions
HashJs ==
    /\ nm_pc = "input"
    /\ nm_lang = "js"
    /\ nm_hash_f' = _normalize_code_for_hash(JsFunctionText(nm_f.name, JsInner(nm_f.inner)))
    /\ nm_hash_g' = _normalize_code_for_hash(JsFunctionText(nm_g.name, JsInner(nm_g.inner)))
    /\ nm_pc' = "hashed"
    /\ UNCHANGED <<nm_lang, nm_f, nm_g, repoVars, scoreVars, extVars>>

NextNorm == HashPython \/ HashJs

SpecNorm == InitNorm /\ [][NextNorm]_vars

\* C10: two functions whose bodies differ only in comments and in whitespace
\* (their code is the same) receive the same duplication hash, in the Python
\* analyzer and in the JS analyzer, whatever the functions are named.
C10_SameCodeSameHash ==
    (nm_pc = "hashed" /\ CodeOf(nm_lang, nm_f.inner) = CodeOf(nm_lang, nm_g.inner))
        => nm_hash_f = nm_hash_g

(***************************************************************************)
(* SpecCplx: the complexity estimate of one Python function and the        *)
(* complexity issue it gives (python_analyzer.py 47-50, 147-172), radon    *)
(* not installed.                                                          *)
(***************************************************************************)
MaxPerKeyword == 3

ComplexityKeywords == <<"if", "for", "while", "and", "or">>

\* n times the symbol sym, each after a blank
RECURSIVE Repeated(_, _)
Repeated(sym, n) == IF n = 0 THEN <<>> ELSE <<" ", sym>> \o Repeated(sym, n - 1)

\* a function body that holds each keyword, and the identifier "format", as
\* often as counts says
KeywordBody(counts) ==
    Concat([k \in 1..Len(ComplexityKeywords) |-> Repeated(ComplexityKeywords[k], counts[k])])
        \o Repeated("format", counts[6]) \o <<" ", "x">>

\* the file a.py with the one function f of that body
KeywordFile(counts) ==
    [path |-> "a.py", parses |-> TRUE, calls |-> <<>>, todos |-> {}, deep |-> FALSE,
     funcs |-> <<PyFunction("f", KeywordBody(counts))>>]

InitCplx ==
    /\ RepoIdle
    /\ ScoreIdle
    /\ NormIdle
    /\ JsSecIdle
    /\ XrefIdle
    /\ JsFnIdle
    /\ JobIdle
    /\ UtilIdle
    /\ cx_counts \in [1..6 -> 0..MaxPerKeyword]
    /\ cx_cc = 0
    /\ cx_issues = <<>>
    /\ cx_pc = "input"

\* analyze_python_repo 147-172 on the function: cc_val and the issue
EstimateComplexity ==
    /\ cx_pc = "input"
    /\ cx_cc' = PyFileReport(KeywordFile(cx_counts)).functions[1].cc
    /\ cx_issues' = PyComplexityIssues(KeywordFile(cx_counts))
    /\ cx_pc' = "estimated"
    /\ UNCHANGED <<cx_counts, repoVars, scoreVars, normVars, jsSecVars, xrefVars, jsFnVars, jobVars, stdVars, chunkVars>>

NextCplx == EstimateComplexity

SpecCplx == InitCplx /\ [][NextCplx]_vars

\* the number k of decision-introducing constructs of the function
Constructs == cx_counts[1] + cx_counts[2] + cx_counts[3] + cx_counts[4] + cx_counts[5]

Flagged ==
    \E k \in 1..Len(cx_issues) :
        cx_issues[k].category = "complexity" /\ cx_issues[k].severity = "high"

\* C11 as claimed: for a function with exactly k decision-introducing
\* constructs the estimator returns 1 + k, and a complexity/high issue is
\* emitted if and only if 1 + k > 10.
C11_EstimateIsOnePlusConstructs ==
    cx_pc = "estimated" =>
        /\ cx_cc = 1 + Constructs
        /\ Flagged <=> 1 + Constructs > 10

\* C11 as amended: the estimator returns 1 plus the number of occurrences of
\* the substrings if, for, while, and, or in the function's text, where a
\* "for" counts twice and an identifier such as "format" counts too; this is
\* at least 1 + k; the issue is emitted if and only if the estimate exceeds
\* 10, hence always with 11 constructs, and with 3 constructs only when the
\* text holds 7 or more further occurrences.
C11_EstimateCountsSubstrings ==
    cx_pc = "estimated" =>
        /\ cx_cc = 1 + Constructs + cx_counts[2] + 2 * cx_counts[6]
        /\ cx_cc >= 1 + Constructs
        /\ Flagged <=> cx_cc > 10
        /\ Constructs >= 11 => Flagged
        /\ (Constructs = 3 /\ cx_counts[2] + 2 * cx_counts[6] < 7) => ~Flagged
        /\ Len(cx_issues) <= 1

\* C11 witness: a function of 11 constructs, none of them a "for", that is flagged
C11_Witness ==
    /\ cx_pc = "estimated"
    /\ Constructs = 11
    /\ cx_counts[2] = 0
    /\ cx_counts[6] = 0
    /\ Flagged

(***************************************************************************)
(* Properties of Spec: the security detectors                              *)
(***************************************************************************)
\* C12: the issue list of the result never holds two security issues with
\* the same file, line and category: of several security matches on one
\* line exactly one is kept.
C12_OneSecurityIssuePerLine ==
    pc = "done" =>
        \A i, j \in Indices(issues) :
            (/\ issues[i].category = "security"
             /\ issues[j].category = "security"
             /\ issues[i].file = issues[j].file
             /\ issues[i].lineno = issues[j].lineno) => i = j

(***************************************************************************)
(* SpecJsSec: the security warnings and issues of one JS file, on the      *)
(* tree-sitter path (js_analyzer.py 240-289) and on the regex path         *)
(* (159-167, 290-293), and the issues made of them (300-312).              *)
(***************************************************************************)
MaxSinks == 2

\* the keys of SUSPICIOUS_PATTERNS, in the order of the dict
SuspiciousPatterns == <<"eval", "new_function", "innerHTML", "document_write">>

SinkLines == {1, 2}

\* one construct of the source: an eval( call, a new Function( expression, an
\* .innerHTML access, a document.write( call, or a call of no sink.  as_call
\* says whether the grammar reports a call_expression node whose text covers
\* the construct: always for the calls, either way for "new Function(...)"
\* and for an .innerHTML access.
JsConstructs ==
    [kind : {"eval", "document_write", "plain_call"}, lineno : SinkLines, as_call : {TRUE}]
    \cup [kind : {"new_function", "innerHTML"}, lineno : SinkLines, as_call : BOOLEAN]

\* the constructs of a file in source order
JsSources ==
    {src \in SeqsUpTo(JsConstructs, MaxSinks) :
        \A k \in 1..(Len(src) - 1) : src[k].lineno <= src[k + 1].lineno}

\* _detect_suspicious_regex(source): per pattern, the matches in source order
_detect_suspicious_regex(source) ==
    Concat([p \in 1..Len(SuspiciousPatterns) |->
        LET matches(c) == c.kind = SuspiciousPatterns[p]
            found == SelectSeq(source, matches)
        IN  [k \in 1..Len(found) |-> [type |-> SuspiciousPatterns[p], lineno |-> found[k].lineno]]])

\* the warning the tree-sitter walk appends for one call_expression node (250-263)
TreeSitterWarning(c) ==
    IF ~c.as_call THEN <<>>
    ELSE IF c.kind = "eval" THEN <<[type |-> "eval", lineno |-> c.lineno]>>
    ELSE IF c.kind \in {"document_write", "innerHTML"}
         THEN <<[type |-> "dom-xss", lineno |-> c.lineno]>>
    ELSE IF c.kind = "new_function" THEN <<[type |-> "new_function", lineno |-> c.lineno]>>
    ELSE <<>>

\* the walk pops the node appended last: sibling nodes are visited last first
RECURSIVE TreeSitterWarnings(_)
TreeSitterWarnings(source) ==
    IF source = <<>> THEN <<>>
    ELSE TreeSitterWarnings(Tail(source)) \o TreeSitterWarning(Head(source))

JsSecFile(warnings) ==
    [path |-> "a.js", functions |-> <<>>, warnings |-> warnings, todos |-> {}]

InitJsSec ==
    /\ RepoIdle
    /\ ScoreIdle
    /\ NormIdle
    /\ CplxIdle
    /\ XrefIdle
    /\ JsFnIdle
    /\ JobIdle
    /\ UtilIdle
    /\ js_source \in JsSources
    /\ js_tree_sitter \in BOOLEAN
    /\ js_warnings = <<>>
    /\ js_sec_issues = <<>>
    /\ js_pc = "input"

\* tree-sitter not available (290-293), then 300-312
RegexPath ==
    /\ js_pc = "input"
    /\ ~js_tree_sitter
    /\ js_warnings' = _detect_suspicious_regex(js_source)
    /\ js_sec_issues' = JsSecurityIssues(JsSecFile(_detect_suspicious_regex(js_source)))
    /\ js_pc' = "emitted"
    /\ UNCHANGED <<js_source, js_tree_sitter, repoVars, scoreVars, normVars, cplxVars,
                   xrefVars, jsFnVars, jobVars, stdVars, chunkVars>>

\* tree-sitter parses the file (240-285), then 300-312
TreeSitterPath ==
    /\ js_pc = "input"
    /\ js_tree_sitter
    /\ js_warnings' = TreeSitterWarnings(js_source)
    /\ js_sec_issues' = JsSecurityIssues(JsSecFile(TreeSitterWarnings(js_source)))
    /\ js_pc' = "emitted"
    /\ UNCHANGED <<js_source, js_tree_sitter, repoVars, scoreVars, normVars, cplxVars,
                   xrefVars, jsFnVars, jobVars, stdVars, chunkVars>>

\* tree-sitter raises on the file (286-289): the regex heuristics replace it
TreeSitterFails ==
    /\ js_pc = "input"
    /\ js_tree_sitter
    /\ js_warnings' = _detect_suspicious_regex(js_source)
    /\ js_sec_issues' = JsSecurityIssues(JsSecFile(_detect_suspicious_regex(js_source)))
    /\ js_pc' = "emitted"
    /\ UNCHANGED <<js_source, js_tree_sitter, repoVars, scoreVars, normVars, cplxVars,
                   xrefVars, jsFnVars, jobVars, stdVars, chunkVars>>

NextJsSec == RegexPath \/ TreeSitterPath \/ TreeSitterFails

SpecJsSec == InitJsSec /\ [][NextJsSec]_vars

\* C13: every security match for a dynamic-execution or markup-injection
\* sink (eval, new Function, innerHTML, document.write) yields an issue of
\* severity high, on the tree-sitter path and on the regex path alike.
C13_SinksAreHigh ==
    js_pc = "emitted" =>
        \A k \in 1..Len(js_sec_issues) : js_sec_issues[k].severity = "high"

\* the files of the repository that the run analysed
AnalysedPy == IF \E k \in Indices(languages) : languages[k] = "py"
              THEN {repo.py[k] : k \in Indices(repo.py)} ELSE {}

AnalysedJs == IF \E k \in Indices(languages) : languages[k] = "js"
              THEN {repo.js[k] : k \in Indices(repo.js)} ELSE {}

PyDenyList == {"eval", "exec", "literal_eval", "system"}

HasCallOf(f, names) == \E k \in Indices(f.calls) : f.calls[k].func_name \in names

HasWarningOf(f, types) == \E k \in Indices(f.warnings) : f.warnings[k].type \in types

SecurityHighFor(path) ==
    \E k \in Indices(issues) :
        /\ issues[k].category = "security"
        /\ issues[k].severity = "high"
        /\ issues[k].file = path

PythonReturned == pc = "loop" /\ languages = <<"py">> /\ lang_idx = 2

\* the repository without the file at path
WithoutFile(r, path) ==
    LET other(f) == f.path # path
    IN  [r EXCEPT !.py = SelectSeq(r.py, other)]

\* the issues of a list that are not about the file at path
IssuesNotOf(issue_list, path) ==
    LET other(i) == i.file # path
    IN  SelectSeq(issue_list, other)

EmptyFileReport ==
    [functions |-> <<>>, todos |-> <<>>, security_warnings |-> <<>>, duplication_hashes |-> <<>>]

\* C15: if a Python file fails to parse, analyze_python_repo returns; it
\* records exactly one issue for that file, of category parsing, and an
\* empty entry for it in the files map; the entries and the issues of every
\* other file are those of the repository without the bad file.
C15_ParseFailureIsLocal ==
    PythonReturned =>
        \A b \in {repo.py[k] : k \in Indices(repo.py)} :
            ~b.parses =>
                /\ Cardinality({k \in Indices(issues) : issues[k].file = b.path}) = 1
                /\ \A k \in Indices(issues) :
                      issues[k].file = b.path => issues[k].category = "parsing"
                /\ files[b.path] = EmptyFileReport
                /\ LET rest == analyze_python_repo(WithoutFile(repo, b.path))
                   IN  /\ IssuesNotOf(issues, b.path) = rest.issues
                       /\ DOMAIN files = DOMAIN rest.files \cup {b.path}
                       /\ \A q \in DOMAIN rest.files : files[q] = rest.files[q]

\* C15 witness: analyze_python_repo returned for a repository with a file
\* that fails to parse and a file that parses and has issues
C15_Witness ==
    /\ PythonReturned
    /\ \E b, g \in {repo.py[k] : k \in Indices(repo.py)} :
          /\ ~b.parses
          /\ g.parses
          /\ \E k \in Indices(issues) : issues[k].file = g.path
          /\ \E k \in Indices(issues) : issues[k].file = b.path

Returned == pc = "done"

Raised == pc \in {"raised FileNotFoundError", "raised RecursionError"}

\* C16: if one detector raises while processing a file, the run completes
\* and the issues of the file's other detectors appear in the result.
C16_RaisingDetectorIsIsolated ==
    \A f \in AnalysedPy :
        (f.parses /\ f.deep /\ repo.exists /\ pc # "loop") =>
            /\ Returned
            /\ \A t \in f.todos :
                  \E k \in Indices(issues) :
                      /\ issues[k].file = f.path
                      /\ issues[k].category = "documentation"
                      /\ issues[k].lineno = Some(t)

\* C17: analyze_repo raises, instead of returning a result, exactly when the
\* root path does not exist or no file of a recognized language is found
\* under it.
C17_FatalExactlyOnNoPathOrNoFiles ==
    (Returned \/ Raised) =>
        (Raised <=> (~repo.exists \/ (repo.py = <<>> /\ repo.js = <<>>)))

(***************************************************************************)
(* Properties of Spec: the missing-tests detectors                         *)
(***************************************************************************)
TestingMissing == {k \in Indices(issues) :
                      issues[k].category = "testing" /\ issues[k].severity = "missing"}

\* C18: for a root with no test markers and exactly one package directory,
\* the result of the analysis under the default languages holds exactly one
\* testing/missing issue, and that issue names the package.
C18_OneTestingIssueForThePackage ==
    (/\ pc = "done"
     /\ languages = <<"py", "js">>
     /\ ~repo.tests_dir
     /\ ~repo.js_tests
     /\ Len(repo.packages) = 1) =>
        /\ Cardinality(TestingMissing) = 1
        /\ \A k \in TestingMissing : issues[k].file = repo.packages[1]

(***************************************************************************)
(* SpecXref: config/ast_parser.py, build_python_symbol_table and           *)
(* resolve_crossrefs.  Here a text is a sequence of characters and a name  *)
(* is the sequence of its characters.                                      *)
(***************************************************************************)
MaxStatements == 2

\* snippet[:100]
SnippetLimit == 100

WordChars == {"a", "c", "d", "e", "f", "g", "h", "m", "n", "p", "q", "x", "y"}

\* str.rstrip(chars)
RECURSIVE RStripChars(_, _)
RStripChars(t, chars) ==
    IF t # <<>> /\ t[Len(t)] \in chars THEN RStripChars(SubSeq(t, 1, Len(t) - 1), chars) ELSE t

\* str(py_file.relative_to(repo_path)).replace(os.sep, ".").rstrip(".py"),
\* for the file <stem>.py at the root
ModuleName(stem) == RStripChars(stem \o <<".", "p", "y">>, {".", "p", "y"})

\* t[i..e] matches \w+(?:\.\w+)* : word characters, with single dots between
IsDottedName(t, i, e) ==
    /\ 1 <= i /\ i <= e /\ e <= Len(t)
    /\ t[i] \in WordChars /\ t[e] \in WordChars
    /\ \A k \in i..e : t[k] \in WordChars \/ (t[k] = "." /\ t[k - 1] \in WordChars
                                                          /\ t[k + 1] \in WordChars)

\* the index of the last character before p that is no whitespace, or 0
BeforeSpace(t, p) ==
    IF \E k \in 1..(p - 1) : t[k] \notin Whitespace
    THEN CHOOSE k \in 1..(p - 1) :
            t[k] \notin Whitespace /\ \A j \in (k + 1)..(p - 1) : t[j] \in Whitespace
    ELSE 0

\* the positions of the "(" that end a match of (\w+(?:\.\w+)*)\s*\( : a
\* name, then whitespace only, come before them
CallParens(t) ==
    {p \in 1..Len(t) : t[p] = "(" /\ BeforeSpace(t, p) > 0 /\ t[BeforeSpace(t, p)] \in WordChars}

\* the group of the match that ends at the "(" at p: the scan goes left to
\* right, so the match starts at the leftmost i from which the name reaches
\* the "("
MatchGroup(t, p) ==
    LET e == BeforeSpace(t, p)
        i == CHOOSE i \in 1..e :
                IsDottedName(t, i, e) /\ \A j \in 1..(i - 1) : ~IsDottedName(t, j, e)
    IN  SubSeq(t, i, e)

\* re.findall(r"(\w+(?:\.\w+)*)\s*\(", t): the matches' groups, leftmost
\* first; matches do not overlap because no name holds a "("
FindCalls(t) ==
    LET parens == CallParens(t)
        nth(k) == CHOOSE p \in parens : Cardinality({q \in parens : q < p}) = k - 1
    IN  [k \in 1..Cardinality(parens) |-> MatchGroup(t, nth(k))]

\* the index of the last "." of a name, or 0
RECURSIVE LastDot(_, _)
LastDot(name, i) == IF i = 0 THEN 0 ELSE IF name[i] = "." THEN i ELSE LastDot(name, i - 1)

\* the lines a function body is made of: an unqualified call, a call
\* qualified by a module, a call qualified by a dotted module, a statement
\* that is no call, and a comment of SnippetLimit characters
BodyLines ==
    {[text |-> <<" ", "g", "(", ")">>, calls |-> <<[module |-> <<>>, name |-> <<"g">>]>>],
     [text |-> <<" ", "n", ".", "h", "(", ")">>,
      calls |-> <<[module |-> <<"n">>, name |-> <<"h">>]>>],
     [text |-> <<" ", "p", ".", "q", ".", "h", "(", ")">>,
      calls |-> <<[module |-> <<"p", ".", "q">>, name |-> <<"h">>]>>],
     [text |-> <<" ", "x">>, calls |-> <<>>],
     [text |-> <<" ", "#">> \o [k \in 1..SnippetLimit |-> "c"], calls |-> <<>>]}

\* ast.get_source_segment(source, node) for "def <name>():" with these lines
FunctionSource(name, lines) ==
    <<"d", "e", "f", " ">> \o name \o <<"(", ")", ":">>
        \o Concat([k \in 1..Len(lines) |-> <<"\n">> \o lines[k].text])

\* the .py files: <stem>.py defines one function at line 1, or does not parse
XrefFiles(stem, bodies) ==
    {[stem |-> stem, parses |-> FALSE, name |-> <<"f">>, lineno |-> 1, lines |-> <<>>]}
    \cup [stem : {stem}, parses : {TRUE}, name : {<<"f">>, <<"g">>}, lineno : {1}, lines : bodies]

\* the dict d, a sequence of <<key, value>> in insertion order, after d[key] = value
SetItem(d, key, value) ==
    IF \E k \in 1..Len(d) : d[k][1] = key
    THEN [k \in 1..Len(d) |-> IF d[k][1] = key THEN <<key, value>> ELSE d[k]]
    ELSE Append(d, <<key, value>>)

\* module_entry of one file (51-82)
ModuleEntry(file) ==
    IF ~file.parses
    THEN [functions |-> <<>>, warnings |-> <<"Failed to parse">>]
    ELSE [functions |-> <<[name |-> file.name, lineno |-> file.lineno,
                           snippet |-> SubSeq(FunctionSource(file.name, file.lines), 1,
                                              Min(SnippetLimit,
                                                  Len(FunctionSource(file.name, file.lines))))]>>,
          warnings |-> <<>>]

\* build_python_symbol_table(path): symbol_table["modules"]
RECURSIVE build_python_symbol_table(_)
build_python_symbol_table(py_files) ==
    IF py_files = <<>> THEN <<>>
    ELSE LET file == py_files[Len(py_files)]
         IN  SetItem(build_python_symbol_table(SubSeq(py_files, 1, Len(py_files) - 1)),
                     ModuleName(file.stem), ModuleEntry(file))

\* the call_graph records of one function of module mod_name (107-120)
FunctionEdges(mod_name, func) ==
    LET matches == FindCalls(func.snippet)
    IN  [k \in 1..Len(matches) |->
            LET match == matches[k]
                dot == LastDot(match, Len(match))
            IN  [caller_file |-> mod_name,
                 callee_module |-> IF dot > 0 THEN SubSeq(match, 1, dot - 1) ELSE mod_name,
                 callee_name |-> IF dot > 0 THEN SubSeq(match, dot + 1, Len(match)) ELSE match,
                 lineno |-> func.lineno]]

\* resolve_crossrefs(symbol_table): the call_graph
resolve_crossrefs(symbol_table) ==
    Concat([m \in 1..Len(symbol_table) |->
        Concat([f \in 1..Len(symbol_table[m][2].functions) |->
            FunctionEdges(symbol_table[m][1], symbol_table[m][2].functions[f])])])

(***************************************************************************)
(* core/dep_graph.py, build_dep_graph: the edge list                       *)
(***************************************************************************)
\* the value of key in the dict d, or default: d.get(key, default)
GetItem(d, key, default) ==
    IF \E k \in 1..Len(d) : d[k][1] = key
    THEN (CHOOSE e \in {d[k] : k \in 1..Len(d)} : e[1] = key)[2]
    ELSE default

\* every record a new entry of weight 1: no accumulation per (src, dst)
RECURSIVE EdgeWeightsPerRecord(_)
EdgeWeightsPerRecord(call_graph) ==
    IF call_graph = <<>> THEN <<>>
    ELSE LET ref == call_graph[Len(call_graph)]
             rest == EdgeWeightsPerRecord(SubSeq(call_graph, 1, Len(call_graph) - 1))
         IN  IF ref.caller_file = <<>> \/ ref.callee_module = <<>> THEN rest
             ELSE Append(rest, <<<<ref.caller_file, ref.callee_module>>, 1>>)

\* edge_weights after the loop over the call graph (49-56): a record with an
\* empty caller or callee module is skipped
RECURSIVE EdgeWeights(_)
EdgeWeights(call_graph) ==
    IF call_graph = <<>> THEN <<>>
    ELSE LET ref == call_graph[Len(call_graph)]
             rest == EdgeWeights(SubSeq(call_graph, 1, Len(call_graph) - 1))
             key == <<ref.caller_file, ref.callee_module>>
         IN  IF ref.caller_file = <<>> \/ ref.callee_module = <<>> THEN rest
             ELSE SetItem(rest, key, GetItem(rest, key, 0) + 1)

\* edges (71)
DepGraphEdges(edge_weights) ==
    [k \in 1..Len(edge_weights) |->
        [source |-> edge_weights[k][1][1], target |-> edge_weights[k][1][2],
         weight |-> edge_weights[k][2]]]

\* nodes_set (58-61)
NodesSet(edge_weights) ==
    {edge_weights[k][1][1] : k \in 1..Len(edge_weights)}
        \cup {edge_weights[k][1][2] : k \in 1..Len(edge_weights)}

\* the orders in which iterating over the set S can yield its elements
Enumerations(S) ==
    {order \in [1..Cardinality(S) -> S] : \A i, j \in 1..Cardinality(S) : order[i] = order[j] => i = j}

\* the weight of the edges that leave the node only
NodeHotnessOutgoingOnly(node, edge_weights) ==
    SumSeq([k \in 1..Len(edge_weights) |->
               IF edge_weights[k][1][1] = node THEN edge_weights[k][2] ELSE 0])

\* node_hotness[node] after the loop over the edges (64-67)
NodeHotness(node, edge_weights) ==
    SumSeq([k \in 1..Len(edge_weights) |->
               (IF edge_weights[k][1][1] = node THEN edge_weights[k][2] ELSE 0)
             + (IF edge_weights[k][1][2] = node THEN edge_weights[k][2] ELSE 0)])

\* nodes (70); order is the order in which nodes_set is iterated
DepGraphNodes(order, edge_weights) ==
    [k \in 1..Len(order) |->
        [id |-> order[k], label |-> order[k], hotness |-> NodeHotness(order[k], edge_weights)]]

\* [:5]
HotspotLimit == 5

\* sorted(entries, key=score, reverse=True): a stable sort, so entries of
\* equal score keep the order they have in entries
SortedByScoreDescending(entries) ==
    LET rank(k) == Cardinality({j \in 1..Len(entries) :
                        \/ entries[j].score > entries[k].score
                        \/ entries[j].score = entries[k].score /\ j < k}) + 1
    IN  [r \in 1..Len(entries) |-> entries[CHOOSE k \in 1..Len(entries) : rank(k) = r]]

\* hotspots (74-77); node_hotness is a dict filled in the order of nodes_set
Hotspots(order, edge_weights) ==
    LET entries == [k \in 1..Len(order) |->
                       [id |-> order[k], score |-> NodeHotness(order[k], edge_weights)]]
        sorted == SortedByScoreDescending(entries)
    IN  SubSeq(sorted, 1, Min(HotspotLimit, Len(sorted)))

InitXref ==
    /\ RepoIdle
    /\ ScoreIdle
    /\ NormIdle
    /\ CplxIdle
    /\ JsSecIdle
    /\ JsFnIdle
    /\ JobIdle
    /\ UtilIdle
    /\ xr_files \in WalkOrders(XrefFiles(<<"m">>, SeqsUpTo(BodyLines, MaxStatements)),
                               XrefFiles(<<"a", "p", "p">>, SeqsUpTo(BodyLines, 1))
                                   \cup XrefFiles(<<"p">>, SeqsUpTo(BodyLines, 1)))
    /\ xr_symbol_table = <<>>
    /\ xr_call_graph = <<>>
    /\ xr_edges = <<>>
    /\ xr_nodes = <<>>
    /\ xr_hotspots = <<>>
    /\ xr_pc = "input"

BuildSymbolTable ==
    /\ xr_pc = "input"
    /\ xr_symbol_table' = build_python_symbol_table(xr_files)
    /\ xr_pc' = "built"
    /\ UNCHANGED <<xr_files, xr_call_graph, xr_edges, xr_nodes, xr_hotspots, repoVars, scoreVars, normVars, cplxVars,
                   jsSecVars, jsFnVars, jobVars, stdVars, chunkVars>>

ResolveCrossrefs ==
    /\ xr_pc = "built"
    /\ xr_call_graph' = resolve_crossrefs(xr_symbol_table)
    /\ xr_pc' = "resolved"
    /\ UNCHANGED <<xr_files, xr_symbol_table, xr_edges, xr_nodes, xr_hotspots, repoVars, scoreVars, normVars, cplxVars,
                   jsSecVars, jsFnVars, jobVars, stdVars, chunkVars>>

\* build_dep_graph, from the call graph on (48-71)
BuildDepGraph ==
    /\ xr_pc = "resolved"
    /\ xr_edges' = DepGraphEdges(EdgeWeights(xr_call_graph))
    /\ \E order \in Enumerations(NodesSet(EdgeWeights(xr_call_graph))) :
          /\ xr_nodes' = DepGraphNodes(order, EdgeWeights(xr_call_graph))
          /\ xr_hotspots' = Hotspots(order, EdgeWeights(xr_call_graph))
    /\ xr_pc' = "graphed"
    /\ UNCHANGED <<xr_files, xr_symbol_table, xr_call_graph, repoVars, scoreVars, normVars,
                   cplxVars, jsSecVars, jsFnVars, jobVars, stdVars, chunkVars>>

NextXref == BuildSymbolTable \/ ResolveCrossrefs \/ BuildDepGraph

SpecXref == InitXref /\ [][NextXref]_vars

\* the number of times line k of the file's function holds the call c
CallsOf(file, c) ==
    Cardinality({k \in Indices(file.lines) :
                    \E j \in Indices(file.lines[k].calls) : file.lines[k].calls[j] = c})

\* the call graph's records for the call c made in the function of the file
EdgesFor(file, c) ==
    {k \in Indices(xr_call_graph) :
        /\ xr_call_graph[k].caller_file = ModuleName(file.stem)
        /\ xr_call_graph[k].callee_module =
              (IF c.module = <<>> THEN ModuleName(file.stem) ELSE c.module)
        /\ xr_call_graph[k].callee_name = c.name
        /\ xr_call_graph[k].lineno = file.lineno}

\* C19: for every call-like pattern name( or prefix.name( anywhere in the
\* body of an extracted function, the call graph holds one edge whose caller
\* is the function's module and whose callee module is the dotted prefix of
\* a qualified call and the caller's own module otherwise.
C19_EveryCallInTheBodyGivesAnEdge ==
    xr_pc = "resolved" =>
        \A k \in Indices(xr_files) :
            xr_files[k].parses =>
                \A j \in Indices(xr_files[k].lines) :
                    \A c \in {xr_files[k].lines[j].calls[i] : i \in Indices(xr_files[k].lines[j].calls)} :
                        Cardinality(EdgesFor(xr_files[k], c)) >= CallsOf(xr_files[k], c)

\* a call-graph record that has both endpoints
HasBothEndpoints(ref) == ref.caller_file # <<>> /\ ref.callee_module # <<>>

\* the call-graph records from src to dst
RecordsBetween(src, dst) ==
    {k \in Indices(xr_call_graph) :
        xr_call_graph[k].caller_file = src /\ xr_call_graph[k].callee_module = dst}

\* C20: the edge list of build_dep_graph holds at most one edge per (source,
\* target) pair, the weight of each edge is the number of call-graph records
\* with that caller and callee module, and the weights sum to the number of
\* call-graph records that have both endpoints.
C20_EdgesCountCallGraphRecords ==
    xr_pc = "graphed" =>
        /\ \A i, j \in Indices(xr_edges) :
              (xr_edges[i].source = xr_edges[j].source /\ xr_edges[i].target = xr_edges[j].target)
                  => i = j
        /\ \A i \in Indices(xr_edges) :
              xr_edges[i].weight =
                  Cardinality(RecordsBetween(xr_edges[i].source, xr_edges[i].target))
        /\ SumSeq([i \in Indices(xr_edges) |-> xr_edges[i].weight]) =
              Cardinality({k \in Indices(xr_call_graph) : HasBothEndpoints(xr_call_graph[k])})

\* C20 witness: a graph with an edge of weight two or more, two edges, and a
\* call-graph record left out for want of an endpoint.
C20_Witness ==
    /\ xr_pc = "graphed"
    /\ \E i \in Indices(xr_edges) : xr_edges[i].weight >= 2
    /\ Len(xr_edges) >= 2
    /\ \E k \in Indices(xr_call_graph) : ~HasBothEndpoints(xr_call_graph[k])

\* the total weight of the edges that satisfy test
WeightWhere(test(_)) ==
    SumSeq([i \in Indices(xr_edges) |-> IF test(xr_edges[i]) THEN xr_edges[i].weight ELSE 0])

\* C21: the nodes of the dependency graph are exactly the modules that are
\* the source or the target of some edge, one node each; a node's hotness is
\* the total weight of the edges it is the source of plus the total weight of
\* the edges it is the target of; the hotness values sum to twice the sum of
\* the edge weights.
C21_HotnessIsInPlusOut ==
    xr_pc = "graphed" =>
        /\ {xr_nodes[k].id : k \in Indices(xr_nodes)} =
              {xr_edges[i].source : i \in Indices(xr_edges)}
                  \cup {xr_edges[i].target : i \in Indices(xr_edges)}
        /\ \A j, k \in Indices(xr_nodes) : xr_nodes[j].id = xr_nodes[k].id => j = k
        /\ \A k \in Indices(xr_nodes) :
              xr_nodes[k].hotness =
                  LET IsSource(e) == e.source = xr_nodes[k].id
                      IsTarget(e) == e.target = xr_nodes[k].id
                  IN  WeightWhere(IsSource) + WeightWhere(IsTarget)
        /\ SumSeq([k \in Indices(xr_nodes) |-> xr_nodes[k].hotness]) =
              2 * SumSeq([i \in Indices(xr_edges) |-> xr_edges[i].weight])

\* C21 witness: a graph with three nodes, an edge from a module to itself and
\* an edge between two modules.
C21_Witness ==
    /\ xr_pc = "graphed"
    /\ Len(xr_nodes) >= 3
    /\ \E i \in Indices(xr_edges) : xr_edges[i].source = xr_edges[i].target
    /\ \E i \in Indices(xr_edges) : xr_edges[i].source # xr_edges[i].target

\* a is before b in the ordering of identifiers (the ordering of Python
\* strings: character by character, a prefix first)
CharRank(c) ==
    CASE c = "." -> 1 [] c = "a" -> 2 [] c = "m" -> 3 [] c = "n" -> 4 [] c = "p" -> 5
      [] c = "q" -> 6 [] OTHER -> 7

RECURSIVE IdBefore(_, _)
IdBefore(a, b) ==
    IF b = <<>> THEN FALSE
    ELSE IF a = <<>> THEN TRUE
    ELSE IF a[1] # b[1] THEN CharRank(a[1]) < CharRank(b[1])
    ELSE IdBefore(Tail(a), Tail(b))

\* C22: hotspots holds the min(5, number of nodes) nodes of highest hotness,
\* in descending order of hotness, nodes of equal hotness in the order of
\* their identifiers (so the list does not depend on the order in which the
\* nodes are enumerated).
C22_HotspotsOrderedByHotnessThenId ==
    xr_pc = "graphed" =>
        /\ Len(xr_hotspots) = Min(HotspotLimit, Len(xr_nodes))
        /\ \A i, j \in Indices(xr_hotspots) :
              i < j =>
                  \/ xr_hotspots[i].score > xr_hotspots[j].score
                  \/ /\ xr_hotspots[i].score = xr_hotspots[j].score
                     /\ IdBefore(xr_hotspots[i].id, xr_hotspots[j].id)

(***************************************************************************)
(* SpecJsFn: core/analyzers/js_analyzer.py, _extract_functions_regex.  The *)
(* brace scan (123-131) advances one character per step.                   *)
(***************************************************************************)
MaxPieces == 3

\* m.end() + 200
FallbackLength == 200

\* "function <name>(){", the text the first of FUNCTION_PATTERNS matches
Signature(name) ==
    <<"f", "u", "n", "c", "t", "i", "o", "n", " ", name, "(", ")", "{">>

JsFnNames == {"f", "g"}

\* what follows the first signature: braces, a statement, a second function,
\* a run of FallbackLength characters
JsFnPieces ==
    {<<"{">>, <<"}">>, <<"x">>, Signature("g"), [k \in 1..FallbackLength |-> "x"]}

JsFnSources == {Signature("f") \o Concat(pieces) : pieces \in SeqsUpTo(JsFnPieces, MaxPieces)}

\* the number of "\n" in t[1..n]
NewlinesBefore(t, n) == Cardinality({k \in 1..n : t[k] = "\n"})

\* patt.finditer(source) for the patterns of FUNCTION_PATTERNS (99-108): of
\* the texts built here only "function <name>(){" matches; start and end are
\* the 1-based positions of the match's first and last character, the "{"
PatternMatches(source) ==
    LET starts == {i \in 1..Len(source) :
                      \E name \in JsFnNames :
                          /\ i + Len(Signature(name)) - 1 <= Len(source)
                          /\ SubSeq(source, i, i + Len(Signature(name)) - 1) = Signature(name)}
        nth(k) == CHOOSE i \in starts : Cardinality({j \in starts : j < i}) = k - 1
    IN  [k \in 1..Cardinality(starts) |->
            [name |-> source[nth(k) + 9], start |-> nth(k), end |-> nth(k) + 12,
             lineno |-> NewlinesBefore(source, nth(k) - 1) + 1]]

\* the whole rest of the text: a fallback without the cut at 200 characters
FallbackBodyUncut(source, match) == SubSeq(source, match.start, Len(source))

\* source[m.start(): m.end() + 200]
FallbackBody(source, match) ==
    SubSeq(source, match.start, Min(Len(source), match.end + FallbackLength))

\* the elements of seq at the indices idx, in their order
SelectByIndex(seq, idx) ==
    LET nth(k) == CHOOSE i \in idx : Cardinality({j \in idx : j < i}) = k - 1
    IN  [k \in 1..Cardinality(idx) |-> seq[nth(k)]]

\* the deduplication by (name, lineno) (138-145): the first of each key stays
UniqueByNameLineno(functions) ==
    SelectByIndex(functions, {k \in 1..Len(functions) :
        \A j \in 1..(k - 1) :
            ~(functions[j].name = functions[k].name /\ functions[j].lineno = functions[k].lineno)})

InitJsFn ==
    /\ RepoIdle
    /\ ScoreIdle
    /\ NormIdle
    /\ CplxIdle
    /\ JsSecIdle
    /\ XrefIdle
    /\ JobIdle
    /\ UtilIdle
    /\ fx_source \in JsFnSources
    /\ fx_matches = <<>>
    /\ fx_m = 0
    /\ fx_i = 0
    /\ fx_brace = 0
    /\ fx_functions = <<>>
    /\ fx_pc = "input"

jsFnOthers == <<repoVars, scoreVars, normVars, cplxVars, jsSecVars, xrefVars, jobVars, stdVars, chunkVars>>

\* 117-118: the matches of the pattern
FindMatches ==
    /\ fx_pc = "input"
    /\ fx_matches' = PatternMatches(fx_source)
    /\ fx_m' = 1
    /\ fx_pc' = "match"
    /\ UNCHANGED <<fx_source, fx_i, fx_brace, fx_functions, jsFnOthers>>

\* 119-125: the next match; the scan starts at its "{"
BeginScan ==
    /\ fx_pc = "match"
    /\ fx_m <= Len(fx_matches)
    /\ fx_i' = fx_matches[fx_m].end
    /\ fx_brace' = 0
    /\ fx_pc' = "scan"
    /\ UNCHANGED <<fx_source, fx_matches, fx_m, fx_functions, jsFnOthers>>

\* 126-133: one character of the scan
ScanStep ==
    /\ fx_pc = "scan"
    /\ fx_i <= Len(fx_source)
    /\ LET ch == fx_source[fx_i]
           depth == IF ch = "{" THEN fx_brace + 1 ELSE IF ch = "}" THEN fx_brace - 1 ELSE fx_brace
       IN  IF ch = "}" /\ depth = 0
           THEN /\ fx_functions' = Append(fx_functions,
                        [name |-> fx_matches[fx_m].name, lineno |-> fx_matches[fx_m].lineno,
                         body |-> SubSeq(fx_source, fx_matches[fx_m].start, fx_i)])
                /\ fx_m' = fx_m + 1
                /\ fx_pc' = "match"
                /\ UNCHANGED <<fx_i, fx_brace>>
           ELSE /\ fx_i' = fx_i + 1
                /\ fx_brace' = depth
                /\ UNCHANGED <<fx_functions, fx_m, fx_pc>>
    /\ UNCHANGED <<fx_source, fx_matches, jsFnOthers>>

\* 134-135 with end_idx = None: the scan reached the end of the text
ScanExhausted ==
    /\ fx_pc = "scan"
    /\ fx_i > Len(fx_source)
    /\ fx_functions' = Append(fx_functions,
            [name |-> fx_matches[fx_m].name, lineno |-> fx_matches[fx_m].lineno,
             body |-> FallbackBody(fx_source, fx_matches[fx_m])])
    /\ fx_m' = fx_m + 1
    /\ fx_pc' = "match"
    /\ UNCHANGED <<fx_source, fx_matches, fx_i, fx_brace, jsFnOthers>>

\* 136-146: no match is left; deduplicate and return
ReturnUnique ==
    /\ fx_pc = "match"
    /\ fx_m > Len(fx_matches)
    /\ fx_functions' = UniqueByNameLineno(fx_functions)
    /\ fx_pc' = "done"
    /\ UNCHANGED <<fx_source, fx_matches, fx_m, fx_i, fx_brace, jsFnOthers>>

NextJsFn == FindMatches \/ BeginScan \/ ScanStep \/ ScanExhausted \/ ReturnUnique

\* the interpreter keeps running the function until it returns
SpecJsFn == InitJsFn /\ [][NextJsFn]_vars /\ WF_vars(NextJsFn)

\* the nesting depth after t[a..b]: opening minus closing braces
DepthAfter(t, a, b) ==
    Cardinality({k \in a..b : t[k] = "{"}) - Cardinality({k \in a..b : t[k] = "}"})

\* the "{" at position a of t is closed at position e
ClosedAt(t, a, e) ==
    /\ a < e /\ e <= Len(t)
    /\ DepthAfter(t, a, e) = 0
    /\ \A k \in a..(e - 1) : DepthAfter(t, a, k) > 0

\* the body the claim gives the match
BodyAsClaimed(match, body) ==
    IF \E e \in 1..Len(fx_source) : ClosedAt(fx_source, match.end, e)
    THEN \E e \in 1..Len(fx_source) :
            ClosedAt(fx_source, match.end, e) /\ body = SubSeq(fx_source, match.start, e)
    ELSE /\ Len(body) <= Len(Signature(match.name)) + FallbackLength
         /\ body = SubSeq(fx_source, match.start, match.start + Len(body) - 1)
         /\ \/ Len(body) = Len(Signature(match.name)) + FallbackLength
            \/ match.start + Len(body) - 1 = Len(fx_source)

\* the functions returned are those of the matches, first of each (name, lineno)
BodiesAsClaimed ==
    /\ \A k \in Indices(fx_functions) :
          \E j \in Indices(fx_matches) :
              /\ fx_matches[j].name = fx_functions[k].name
              /\ fx_matches[j].lineno = fx_functions[k].lineno
              /\ \A h \in 1..(j - 1) : ~(fx_matches[h].name = fx_matches[j].name
                                          /\ fx_matches[h].lineno = fx_matches[j].lineno)
              /\ BodyAsClaimed(fx_matches[j], fx_functions[k].body)
    /\ \A j \in Indices(fx_matches) :
          \E k \in Indices(fx_functions) :
              fx_functions[k].name = fx_matches[j].name /\ fx_functions[k].lineno = fx_matches[j].lineno

\* C23: _extract_functions_regex terminates on every input; the body of a
\* function whose opening brace is closed ends at the closing brace that
\* brings the nesting depth back to zero, and the body of one whose brace is
\* never closed is the signature plus at most 200 characters.
C23_ScanTerminatesWithBodyOrSnippet ==
    /\ <>(fx_pc = "done")
    /\ [](fx_pc = "done" => BodiesAsClaimed)

\* C23 witness: the function returned with a closed inner function, nested
\* braces, and an outer function cut to signature plus 200 characters.
C23_Witness ==
    /\ fx_pc = "done"
    /\ \E k \in Indices(fx_functions) :
          Len(fx_functions[k].body) = Len(Signature("f")) + FallbackLength
              /\ Len(fx_source) > Len(fx_functions[k].body)
    /\ \E k \in Indices(fx_functions) :
          fx_functions[k].body[Len(fx_functions[k].body)] = "}"

\* the issues and files of one turn of the per-language loop of analyze_repo
LanguageResult(r, lang) ==
    IF lang = "py" THEN analyze_python_repo(r)
    ELSE IF lang = "js" THEN analyze_js_repo(r)
    ELSE [files |-> EmptyDict, issues |-> <<UnsupportedLanguageIssue(lang)>>]

RECURSIVE LoopFiles(_, _)
LoopFiles(r, langs) ==
    IF langs = <<>> THEN EmptyDict
    ELSE DictUpdate(LoopFiles(r, SubSeq(langs, 1, Len(langs) - 1)),
                    LanguageResult(r, langs[Len(langs)]).files)

\* analyze_repo(path, languages) for a root that exists and on which no
\* detector raises: the issues, the files map and the overall score
analyze_repo(r, langs) ==
    LET raw == Concat([k \in 1..Len(langs) |-> LanguageResult(r, langs[k]).issues])
        unique == DedupById(AssignIds(raw))
        enriched == enrich_issues_with_scores(unique, FileHotnessMap(unique))
        all_files == LoopFiles(r, langs)
    IN  [issues |-> enriched, files |-> all_files,
         overall_score |-> compute_overall_score(enriched, Cardinality(DOMAIN all_files), <<1, 1>>)]

\* the root without its ignored directories
WithoutIgnoredDirs(r) == [r EXCEPT !.ignored = NoIgnored]

\* C24: the ignored directories (venv, .venv, env, node_modules, .git) have
\* no effect: the files map, the issues and the score of analyze_repo are
\* those of the same root without these directories.
C24_IgnoredDirectoriesHaveNoEffect ==
    pc = "done" =>
        LET without == analyze_repo(WithoutIgnoredDirs(repo), languages)
        IN  /\ files = without.files
            /\ issues = without.issues
            /\ overall_score = without.overall_score

(***************************************************************************)
(* SpecJob: core/services/job_manager.py (JobManager) over the file-based  *)
(* backend of core/storage.py.  Every job runs in a thread of its own (a   *)
(* background job) or in the thread of its caller; the threads' steps      *)
(* interleave.  A step is one statement of _run_job, or one read or write  *)
(* of data/index.json or of a report file.                                 *)
(***************************************************************************)
MaxJobs == 2

JobIds == 1..MaxJobs

\* int(datetime.datetime.utcnow().timestamp()): the second a report is saved in
Timestamps == {1, 2}

\* datetime.datetime.utcnow().isoformat()
UtcNow == <<"utcnow">>

\* get_job's answer for an id that is not in jobs (126)
NotFound ==
    [status |-> "not_found", finished_at |-> NoInt, report_id |-> NoInt, error |-> NoInt,
     background |-> FALSE, path_exists |-> FALSE]

\* the job dict start_job creates (55-67); path_exists stands for
\* params["path"]
NewJob(background, path_exists) ==
    [status |-> "pending", finished_at |-> NoInt, report_id |-> NoInt, error |-> NoInt,
     background |-> background, path_exists |-> path_exists]

\* what analyze_repo returns for job j: the report of that job
ReportOf(j) == <<"report", j>>

NoLocals == [data |-> <<>>, rid |-> 0, exc |-> NoInt]

\* data/index.json as init_db writes it (66-69)
NewIndex == [last_id |-> 0, map |-> <<>>, empty |-> FALSE]

\* data/index.json between open(_index_file, "w") and json.dump (170-171):
\* an empty file, on which json.load raises
EmptyIndexFile == [last_id |-> 0, map |-> <<>>, empty |-> TRUE]

\* "report_<ts>_<rid>.json"
ReportFileName(ts, rid) == <<ts, rid>>

\* the file names of data/
FileNames == DOMAIN st_files

\* the content written to a new or existing file
WriteFile(file_map, name, content) ==
    [n \in DOMAIN file_map \cup {name} |-> IF n = name THEN content ELSE file_map[n]]

\* data["map"][str(rid)] = path
WithMapping(data, rid, name) ==
    [data EXCEPT !.map = [r \in DOMAIN data.map \cup {rid} |->
                              IF r = rid THEN name ELSE data.map[r]]]

\* data["last_id"] += 1
WithNextId(data) == [data EXCEPT !.last_id = data.last_id + 1]

\* the statement in the finally clause leaves finished_at as it is
FinishedAtUnset(job) == job

\* job["finished_at"] = utcnow().isoformat() (115)
FinishedAtSet(job) == [job EXCEPT !.finished_at = UtcNow]

\* the except clause marks the job finished
MarkedFinished(job) == [job EXCEPT !.status = "finished"]

\* job["status"] = "failed" (112)
MarkedFailed(job) == [job EXCEPT !.status = "failed"]

\* get_report_by_id(report_id) with the file-based backend (118-123)
get_report_by_id(report_id) ==
    IF st_index.empty THEN <<"JSONDecodeError">>
    ELSE IF report_id \in DOMAIN st_index.map /\ st_index.map[report_id] \in FileNames
    THEN st_files[st_index.map[report_id]]
    ELSE <<"ValueError">>

\* self.jobs.get(job_id, {"status": "not_found", ...}) (126)
get_job(j) == jb_jobs[j]

InitJob ==
    /\ RepoIdle
    /\ ScoreIdle
    /\ NormIdle
    /\ CplxIdle
    /\ JsSecIdle
    /\ XrefIdle
    /\ JsFnIdle
    /\ UtilIdle
    /\ jb_jobs = [j \in JobIds |-> NotFound]
    /\ jb_pc = [j \in JobIds |-> "none"]
    /\ jb_local = [j \in JobIds |-> NoLocals]
    /\ jb_observed = <<>>
    /\ st_index = NewIndex
    /\ st_files = <<>>

jobOthers == <<repoVars, scoreVars, normVars, cplxVars, jsSecVars, xrefVars, jsFnVars, stdVars,
              chunkVars>>

\* start_job up to the call or the start of _run_job (54-77), called by
\* the one thread that starts jobs: with background=False start_job returns
\* when _run_job has, and the next job starts after that
StartJob(j) ==
    /\ jb_pc[j] = "none"
    /\ \A k \in 1..(j - 1) : jb_pc[k] # "none" /\ (jb_jobs[k].background \/ jb_pc[k] = "returned")
    /\ \E background \in BOOLEAN, path_exists \in BOOLEAN :
          jb_jobs' = [jb_jobs EXCEPT ![j] = NewJob(background, path_exists)]
    /\ jb_pc' = [jb_pc EXCEPT ![j] = "run"]
    /\ UNCHANGED <<jb_local, jb_observed, st_index, st_files, jobOthers>>

\* _run_job: job["status"] = "running" (92-95)
BeginRun(j) ==
    /\ jb_pc[j] = "run"
    /\ jb_jobs' = [jb_jobs EXCEPT ![j].status = "running"]
    /\ jb_pc' = [jb_pc EXCEPT ![j] = "analyze"]
    /\ UNCHANGED <<jb_local, jb_observed, st_index, st_files, jobOthers>>

\* analyze_repo returns its result (97)
AnalyzeReturns(j) ==
    /\ jb_pc[j] = "analyze"
    /\ jb_jobs[j].path_exists
    /\ jb_pc' = [jb_pc EXCEPT ![j] = "next_id_load"]
    /\ UNCHANGED <<jb_jobs, jb_local, jb_observed, st_index, st_files, jobOthers>>

\* analyze_repo raises (97): the path does not exist
AnalyzeRaises(j) ==
    /\ jb_pc[j] = "analyze"
    /\ ~jb_jobs[j].path_exists
    /\ jb_local' = [jb_local EXCEPT ![j].exc = <<"FileNotFoundError">>]
    /\ jb_pc' = [jb_pc EXCEPT ![j] = "except"]
    /\ UNCHANGED <<jb_jobs, jb_observed, st_index, st_files, jobOthers>>

\* save_report, _next_file_id: data = _load_index() (150)
NextIdLoad(j) ==
    /\ jb_pc[j] = "next_id_load"
    /\ ~st_index.empty
    /\ jb_local' = [jb_local EXCEPT ![j].data = st_index]
    /\ jb_pc' = [jb_pc EXCEPT ![j] = "next_id_open"]
    /\ UNCHANGED <<jb_jobs, jb_observed, st_index, st_files, jobOthers>>

\* _load_index (165-166) of _next_file_id or of _update_index reads the
\* index while another thread has it open for writing: json.load raises,
\* and so does save_report
LoadRaises(j) ==
    /\ jb_pc[j] \in {"next_id_load", "update_load"}
    /\ st_index.empty
    /\ jb_local' = [jb_local EXCEPT ![j].exc = <<"JSONDecodeError">>]
    /\ jb_pc' = [jb_pc EXCEPT ![j] = "except"]
    /\ UNCHANGED <<jb_jobs, jb_observed, st_index, st_files, jobOthers>>

\* _next_file_id: data["last_id"] += 1 (151); _save_index opens the index
\* for writing (170)
NextIdOpen(j) ==
    /\ jb_pc[j] = "next_id_open"
    /\ st_index' = EmptyIndexFile
    /\ jb_pc' = [jb_pc EXCEPT ![j] = "next_id_write"]
    /\ UNCHANGED <<jb_jobs, jb_local, jb_observed, st_files, jobOthers>>

\* _save_index writes the index (171); _next_file_id returns (153)
NextIdWrite(j) ==
    /\ jb_pc[j] = "next_id_write"
    /\ st_index' = WithNextId(jb_local[j].data)
    /\ jb_local' = [jb_local EXCEPT ![j].rid = WithNextId(jb_local[j].data).last_id]
    /\ jb_pc' = [jb_pc EXCEPT ![j] = "write_report"]
    /\ UNCHANGED <<jb_jobs, jb_observed, st_files, jobOthers>>

\* save_report: the report file is written (94-99); the clock does not go
\* back
WriteReport(j) ==
    /\ jb_pc[j] = "write_report"
    /\ \E ts \in Timestamps :
          /\ \A name \in FileNames : name[1] <= ts
          /\ st_files' = WriteFile(st_files, ReportFileName(ts, jb_local[j].rid), ReportOf(j))
          /\ jb_local' = [jb_local EXCEPT ![j].data = ReportFileName(ts, jb_local[j].rid)]
    /\ jb_pc' = [jb_pc EXCEPT ![j] = "update_load"]
    /\ UNCHANGED <<jb_jobs, jb_observed, st_index, jobOthers>>

\* _update_index: data = _load_index() (157); the path stays in the locals
UpdateLoad(j) ==
    /\ jb_pc[j] = "update_load"
    /\ ~st_index.empty
    /\ jb_local' = [jb_local EXCEPT ![j].data = <<jb_local[j].data, st_index>>]
    /\ jb_pc' = [jb_pc EXCEPT ![j] = "update_open"]
    /\ UNCHANGED <<jb_jobs, jb_observed, st_index, st_files, jobOthers>>

\* _update_index: data["map"][str(rid)] = path (158); _save_index opens the
\* index for writing (170)
UpdateOpen(j) ==
    /\ jb_pc[j] = "update_open"
    /\ st_index' = EmptyIndexFile
    /\ jb_pc' = [jb_pc EXCEPT ![j] = "update_write"]
    /\ UNCHANGED <<jb_jobs, jb_local, jb_observed, st_files, jobOthers>>

\* _save_index writes the index (171); save_report returns rid and
\* job["report_id"] = report_id (98-99)
UpdateWrite(j) ==
    /\ jb_pc[j] = "update_write"
    /\ st_index' = WithMapping(jb_local[j].data[2], jb_local[j].rid, jb_local[j].data[1])
    /\ jb_jobs' = [jb_jobs EXCEPT ![j].report_id = Some(jb_local[j].rid)]
    /\ jb_local' = [jb_local EXCEPT ![j].data = <<>>]
    /\ jb_pc' = [jb_pc EXCEPT ![j] = "finished"]
    /\ UNCHANGED <<jb_observed, st_files, jobOthers>>

\* job["status"] = "finished" (110)
SetFinished(j) ==
    /\ jb_pc[j] = "finished"
    /\ jb_jobs' = [jb_jobs EXCEPT ![j].status = "finished"]
    /\ jb_pc' = [jb_pc EXCEPT ![j] = "finally"]
    /\ UNCHANGED <<jb_local, jb_observed, st_index, st_files, jobOthers>>

\* except Exception as e: job["status"] = "failed" (111-112)
SetFailed(j) ==
    /\ jb_pc[j] = "except"
    /\ jb_jobs' = [jb_jobs EXCEPT ![j] = MarkedFailed(jb_jobs[j])]
    /\ jb_pc' = [jb_pc EXCEPT ![j] = "error"]
    /\ UNCHANGED <<jb_local, jb_observed, st_index, st_files, jobOthers>>

\* job["error"] = str(e) (113)
SetError(j) ==
    /\ jb_pc[j] = "error"
    /\ jb_jobs' = [jb_jobs EXCEPT ![j].error = jb_local[j].exc]
    /\ jb_pc' = [jb_pc EXCEPT ![j] = "finally"]
    /\ UNCHANGED <<jb_local, jb_observed, st_index, st_files, jobOthers>>

\* finally: job["finished_at"] = ... (114-115); _run_job returns, and with
\* background=False so does start_job
Finally(j) ==
    /\ jb_pc[j] = "finally"
    /\ jb_jobs' = [jb_jobs EXCEPT ![j] = FinishedAtSet(jb_jobs[j])]
    /\ jb_pc' = [jb_pc EXCEPT ![j] = "returned"]
    /\ UNCHANGED <<jb_local, jb_observed, st_index, st_files, jobOthers>>

\* another thread calls get_job(j) for a background job and looks at the
\* dict it gets (117-126)
GetJob(j) ==
    /\ jb_pc[j] # "none"
    /\ jb_jobs[j].background
    /\ jb_observed' = <<[job |-> j, status |-> get_job(j).status,
                         finished_at |-> get_job(j).finished_at]>>
    /\ UNCHANGED <<jb_jobs, jb_pc, jb_local, st_index, st_files, jobOthers>>

NextJob ==
    \E j \in JobIds :
        \/ StartJob(j)
        \/ BeginRun(j)
        \/ AnalyzeReturns(j)
        \/ AnalyzeRaises(j)
        \/ NextIdLoad(j)
        \/ LoadRaises(j)
        \/ NextIdOpen(j)
        \/ NextIdWrite(j)
        \/ WriteReport(j)
        \/ UpdateLoad(j)
        \/ UpdateOpen(j)
        \/ UpdateWrite(j)
        \/ SetFinished(j)
        \/ SetFailed(j)
        \/ SetError(j)
        \/ Finally(j)

SpecJob == InitJob /\ [][NextJob]_vars

\* the jobs, and another thread that polls get_job
NextJobObserved == NextJob \/ \E j \in JobIds : GetJob(j)

SpecJobObserved == InitJob /\ [][NextJobObserved]_vars

\* the jobs whose analyze_repo raises
RaisingJobs == {j \in JobIds : jb_pc[j] # "none" /\ ~jb_jobs[j].path_exists}

\* C25: when analyze_repo raises, save_report is not reached: the job has no
\* analysis result and no report_id, no report of the job is in the
\* storage, and the job ends with status 'failed' and an error.
C25_AbortedRunLeavesNoReport ==
    \A j \in RaisingJobs :
        /\ jb_local[j].data = <<>> /\ jb_local[j].rid = 0
        /\ jb_jobs[j].report_id = NoInt
        /\ \A name \in FileNames : st_files[name] # ReportOf(j)
        /\ jb_pc[j] = "returned" =>
              (jb_jobs[j].status = "failed" /\ jb_jobs[j].error # NoInt)

\* C25 witness: a job whose analysis raised has ended, and the report of
\* another job is in the storage.
C25_Witness ==
    /\ \E j \in RaisingJobs : jb_pc[j] = "returned"
    /\ FileNames # {}

\* the jobs started with background=False whose start_job has returned
ReturnedSynchronousJobs == {j \in JobIds : jb_pc[j] = "returned" /\ ~jb_jobs[j].background}

\* C27: when start_job(background=False) has returned, the job is
\* 'finished' with a report_id or 'failed' with an error, and its
\* finished_at is set.
C27_SynchronousJobEndsTerminal ==
    \A j \in ReturnedSynchronousJobs :
        /\ \/ jb_jobs[j].status = "finished" /\ jb_jobs[j].report_id # NoInt
           \/ jb_jobs[j].status = "failed" /\ jb_jobs[j].error # NoInt
        /\ jb_jobs[j].finished_at # NoInt

\* C27 witness: one synchronous job has returned finished, another failed.
C27_Witness ==
    /\ \E j \in ReturnedSynchronousJobs : jb_jobs[j].status = "finished"
    /\ \E j \in ReturnedSynchronousJobs : jb_jobs[j].status = "failed"

\* the jobs whose save_report has returned
SavedJobs == {j \in JobIds : jb_jobs[j].report_id # NoInt}

\* no save_report call is under way
NoSaveUnderWay ==
    \A j \in JobIds :
        jb_pc[j] \notin {"next_id_load", "next_id_open", "next_id_write", "write_report",
                         "update_load", "update_open", "update_write"}

\* C26: with the file-based backend, after the save_report calls of the
\* jobs, whatever their interleaving, the ids returned are pairwise
\* distinct, get_report_by_id of a returned id is the report saved under
\* it, and get_report_by_id of an id never returned raises ValueError.
C26_SavedReportsKeepDistinctIds ==
    NoSaveUnderWay =>
    /\ \A j, k \in SavedJobs : j # k => jb_jobs[j].report_id # jb_jobs[k].report_id
    /\ \A j \in SavedJobs : get_report_by_id(Val(jb_jobs[j].report_id)) = ReportOf(j)
    /\ \A id \in 1..(MaxJobs + 1) :
          (\A j \in SavedJobs : Val(jb_jobs[j].report_id) # id) =>
              get_report_by_id(id) = <<"ValueError">>

\* the status of a job moves from pending to running, and from running to
\* finished or failed
StatusMoves ==
    \A j \in JobIds :
        \/ jb_jobs'[j].status = jb_jobs[j].status
        \/ <<jb_jobs[j].status, jb_jobs'[j].status>> \in
              {<<"not_found", "pending">>, <<"pending", "running">>,
               <<"running", "finished">>, <<"running", "failed">>}

\* C29: an observer of a background job whose get_job shows the status
\* 'finished' or 'failed' also sees finished_at set, under every
\* interleaving; and the status only moves pending -> running -> finished
\* or failed.
C29_TerminalStatusComesWithFinishTime ==
    /\ [](\A k \in Indices(jb_observed) :
             jb_observed[k].status \in {"finished", "failed"} =>
                 jb_observed[k].finished_at # NoInt)
    /\ [][StatusMoves]_vars

(***************************************************************************)
(* SpecStd: core/reporter.py, standardize_issue.  A key the raw issue does *)
(* not carry is None; a score is the pair <<numerator, denominator>> of    *)
(* an int (denominator 1) or of a float.                                   *)
(***************************************************************************)
\* str.lower() of the severities of the raw issues
Lower(severity) ==
    CASE severity = "HIGH" -> "high"
      [] severity = "Medium" -> "medium"
      [] severity = "CRITICAL" -> "critical"
      [] OTHER -> severity

RawSeverities ==
    {None, "critical", "CRITICAL", "high", "HIGH", "medium", "Medium", "low", "missing", "info"}

\* no score, the ints 0, 55 and 100, the floats 12.5 and 70.0
RawScores == {NoInt, <<0, 1>>, <<55, 1>>, <<100, 1>>, <<25, 2>>, <<70, 1>>}

RawIssues ==
    [id : {None, "JS-SEC-001", "PY-TODO-9"}, severity : RawSeverities, score : RawScores,
     category : {None, "security"}]

\* every severity gets the score of the severity below it
SeverityMapShifted(severity_level) ==
    CASE severity_level = "critical" -> 70
      [] severity_level = "high" -> 40
      [] OTHER -> 10

\* severity_map.get(severity_level, 10) (32-33)
SeverityMapGet(severity_level) ==
    CASE severity_level = "critical" -> 90
      [] severity_level = "high" -> 70
      [] severity_level = "medium" -> 40
      [] severity_level = "low" -> 10
      [] OTHER -> 10

\* int(score) of a score that is not negative
IntOf(score) == score[1] \div score[2]

\* standardize_issue(raw) (21-46)
standardize_issue(raw) ==
    LET severity_level == Lower(IF raw.severity = None THEN "low" ELSE raw.severity)
        score == IF raw.score = NoInt THEN <<SeverityMapGet(severity_level), 1>> ELSE raw.score
    IN  [id |-> IF raw.id = None THEN <<"GEN-", raw>> ELSE <<raw.id>>,
         category |-> IF raw.category = None THEN "general" ELSE raw.category,
         severity |-> severity_level,
         score |-> IntOf(score)]

InitStd ==
    /\ RepoIdle
    /\ ScoreIdle
    /\ NormIdle
    /\ CplxIdle
    /\ JsSecIdle
    /\ XrefIdle
    /\ JsFnIdle
    /\ JobIdle
    /\ ChunkIdle
    /\ sd_raw \in RawIssues
    /\ sd_out = <<>>
    /\ sd_pc = "input"

Standardize ==
    /\ sd_pc = "input"
    /\ sd_out' = standardize_issue(sd_raw)
    /\ sd_pc' = "done"
    /\ UNCHANGED <<sd_raw, repoVars, scoreVars, normVars, cplxVars, jsSecVars, xrefVars, jsFnVars,
                   jobVars, chunkVars>>

NextStd == Standardize

SpecStd == InitStd /\ [][NextStd]_vars

\* C28: standardize_issue keeps the id of the raw issue and its severity in
\* lower case, and the score is an integer; a raw issue without a score
\* gets 90, 70, 40 or 10 for critical, high, medium or low, so a high
\* issue without a score gets at least 70.
C28_StandardizeKeepsIdAndDefaultsScore ==
    sd_pc = "done" =>
        /\ sd_raw.id # None => sd_out.id = <<sd_raw.id>>
        /\ sd_raw.severity # None => sd_out.severity = Lower(sd_raw.severity)
        /\ sd_out.score \in Int
        /\ sd_raw.score = NoInt =>
              /\ sd_out.severity = "critical" => sd_out.score = 90
              /\ sd_out.severity = "high" => sd_out.score = 70 /\ sd_out.score >= 70
              /\ sd_out.severity = "medium" => sd_out.score = 40
              /\ sd_out.severity = "low" => sd_out.score = 10

\* C28 witness: a raw issue with an id, the severity HIGH and no score has
\* been standardized.
C28_Witness ==
    /\ sd_pc = "done"
    /\ sd_raw.id = "JS-SEC-001"
    /\ sd_raw.severity = "HIGH"
    /\ sd_raw.score = NoInt
    /\ sd_out.score = 70

(***************************************************************************)
(* SpecChunk: core/utils.py, chunk_text.  The text is given by its length; *)
(* a chunk text[start:end] by <<start, end>>.                              *)
(***************************************************************************)
MaxTextLen == 120

\* overlap = 100
Overlap == 100

ChunkSizes == {1, 50, 100, 101, 110, 1000}

\* the position a slice bound stands for in a text of length n: a
\* negative bound counts from the end
SliceBound(bound, n) == IF bound < 0 THEN Max(bound + n, 0) ELSE Min(bound, n)

\* len(text[start:end])
SliceLen(chunk, n) == Max(SliceBound(chunk[2], n) - SliceBound(chunk[1], n), 0)

InitChunk ==
    /\ RepoIdle
    /\ ScoreIdle
    /\ NormIdle
    /\ CplxIdle
    /\ JsSecIdle
    /\ XrefIdle
    /\ JsFnIdle
    /\ JobIdle
    /\ StdIdle
    /\ ck_len \in 0..MaxTextLen
    /\ ck_max \in ChunkSizes
    /\ ck_start = 0
    /\ ck_chunks = <<>>
    /\ ck_pc = "loop"

chunkOthers ==
    <<repoVars, scoreVars, normVars, cplxVars, jsSecVars, xrefVars, jsFnVars, jobVars, stdVars>>

\* if not text: return [] (77-78)
EmptyText ==
    /\ ck_pc = "loop"
    /\ ck_len = 0
    /\ ck_pc' = "done"
    /\ UNCHANGED <<ck_len, ck_max, ck_start, ck_chunks, chunkOthers>>

\* a start at or below -len(text) - overlap slices the text to the empty
\* string, as does every start below it: these starts are represented by
\* the highest of them
Saturated(start) == Max(start, 0 - ck_len - Overlap)

\* chunks.append(...) (84); of a list that already has more chunks than
\* the text has characters, only the chunks made so far are kept
Appended(chunks, chunk) ==
    IF Len(chunks) <= ck_len THEN Append(chunks, chunk) ELSE chunks

\* while start < len(text) (82, 88)
WhileTest ==
    /\ ck_pc = "loop"
    /\ ck_len > 0
    /\ ck_pc' = IF ck_start < ck_len THEN "body" ELSE "done"
    /\ UNCHANGED <<ck_len, ck_max, ck_start, ck_chunks, chunkOthers>>

\* the body of the loop (83-87)
ChunkTurn ==
    /\ ck_pc = "body"
    /\ LET end == Min(ck_start + ck_max, ck_len)
       IN  /\ ck_chunks' = Appended(ck_chunks, <<ck_start, end>>)
           /\ IF end = ck_len
              THEN ck_pc' = "done" /\ UNCHANGED ck_start
              ELSE ck_start' = Saturated(end - Overlap) /\ ck_pc' = "loop"
    /\ UNCHANGED <<ck_len, ck_max, chunkOthers>>

NextChunk == EmptyText \/ WhileTest \/ ChunkTurn

\* the interpreter keeps running the loop
SpecChunk == InitChunk /\ [][NextChunk]_vars /\ WF_vars(NextChunk)

\* the chunks cover the text in order, none longer than max_chars, each
\* overlapping the next by 100 characters
ChunksCoverText ==
    /\ \A k \in Indices(ck_chunks) : SliceLen(ck_chunks[k], ck_len) <= ck_max
    /\ ck_len > 0 =>
          /\ ck_chunks # <<>>
          /\ ck_chunks[1][1] = 0
          /\ ck_chunks[Len(ck_chunks)][2] = ck_len
    /\ \A k \in 1..(Len(ck_chunks) - 1) :
          /\ ck_chunks[k + 1][1] = ck_chunks[k][2] - Overlap
          /\ ck_chunks[k + 1][1] >= 0

\* C30: chunk_text(text, n) terminates for every text and every n >= 1;
\* its chunks are at most n long, cover the text in order, and consecutive
\* chunks overlap by 100 characters.
C30_ChunkTextTerminatesAndCovers ==
    /\ <>(ck_pc = "done")
    /\ [](ck_pc = "done" => ChunksCoverText)

====
